---- MODULE Spec2Model ----
(***************************************************************************)
(* Model of poke_env.player.player.Player: the battle registry, the        *)
(* concurrency gate (asyncio.Queue / Semaphore / Condition), the message   *)
(* handlers and the session workflows.                                     *)
(*                                                                         *)
(* Every action is one run of a coroutine between two suspension points    *)
(* of the asyncio event loop: an await that finds its resource available   *)
(* does not suspend, so the code up to the next blocking await belongs to  *)
(* the same action.                                                        *)
(***************************************************************************)
EXTENDS Integers, Sequences, FiniteSets, TLC

\* ---------------------------------------------------------------- bounds
MaxHandlers == 3        \* grouped updates delivered by the transport
NTags == 2              \* battle tags carrying the player's own format
MaxCap == 1             \* largest max_concurrent_battles explored
MaxGames == 2           \* largest n_games / n_challenges explored
MaxChallenges == 1      \* challenge offers waiting in the challenge queue
MaxResets == 1          \* calls of reset_battles
MaxLines == 3           \* lines of a grouped update after its header
MaxText == 4            \* fragments of the text of an error line
MaxQueue == 3           \* challengers on the queue when updates list several

Handlers == 1..MaxHandlers
\* Tag 0 is a battle room whose format field differs from the player's.
Tags == 0..NTags
WF == 0                 \* task id of the workflow coroutine
NoTask == -1
NoBattle == 0

format == "gen9randombattle"

\* Variant of line 273: the format field is not looked at.
FormatUnchecked(t) == format

\* The format field of the rooms' init messages (split_message[1]).
FormatOf(t) == IF t = 0 THEN "gen8ou" ELSE format

Workflows == {"accept_challenges", "ladder", "ladder_accept", "send_challenges"}
Users == {"Opp", "other"}
Final == {"done", "raised"}

VARIABLES
    max_concurrent_battles, \* self._max_concurrent_battles
    workflow,               \* which workflow coroutine the caller started
    n_games,                \* its n_games / n_challenges argument
    opponent,               \* its opponent argument ("" stands for None)
    battles,                \* self._battles: tag -> battle object (0: absent)
    finished,               \* battle.finished of each battle object
    qsize,                  \* self._battle_count_queue.qsize()
    unfinished_tasks,       \* self._battle_count_queue._unfinished_tasks
    battle_semaphore,       \* self._battle_semaphore._value
    lock_owner,             \* holder of self._battle_start_condition's lock
    lock_waiters,           \* FIFO of tasks waiting for that lock
    challenge_queue,        \* self._challenge_queue
    pc, kind, tag, bat,     \* per handler: position, line type, tag, battle
    wpc, wi,                \* workflow: position, completed iterations
    nadmit, nrelease,       \* per tag: gate slots taken / given back
    ncallback,              \* per tag: completed _battle_finished_callback calls
    nresets,                \* reset_battles calls made so far
    reset_result,           \* outcome of the last reset_battles call
    running,                \* handler whose run is under way (0: none)
    cur,                    \* the line the running handler has taken
    nlines, li,             \* per handler: lines of its update / lines processed
    cont,                   \* per handler: what follows the awaited request
    message,                \* per handler: the command of its decision cycle
    history,                \* per battle: writes of the narration pass
    trapped,                \* battle.trapped
    move_on_next_request,   \* battle.move_on_next_request
    in_team_preview,        \* battle.in_team_preview
    requested,              \* the call of _handle_battle_request the last step made
    called,                 \* the decision callback the last step called
    last_error,             \* the text of the error line the last step processed
    seen_trapped,           \* battle.trapped as the callback of the last step saw it
    owed,                   \* per battle: an "is disabled" error since the last request line
    pokemon_hp_log_dict,    \* battle 1: actor -> the HP strings logged for it
    idx,                    \* the narration pass's index into split_messages[3:]
    speed_list              \* per battle: battle.speed_list

vars == <<max_concurrent_battles, workflow, n_games, opponent, battles, finished,
          qsize, unfinished_tasks, battle_semaphore, lock_owner, lock_waiters,
          challenge_queue, pc, kind, tag, bat, wpc, wi, nadmit, nrelease,
          ncallback, nresets, reset_result, running, cur, nlines, li, cont,
          message, history, trapped, move_on_next_request, in_team_preview,
          requested, called, last_error, seen_trapped, owed,
          pokemon_hp_log_dict, idx, speed_list>>

\* The state of the line-by-line processing of updates.
msgvars == <<running, cur, nlines, li, cont, message, history, trapped,
             move_on_next_request, in_team_preview, requested, called,
             last_error, seen_trapped, owed, pokemon_hp_log_dict, idx,
             speed_list>>

config == <<max_concurrent_battles, workflow, n_games, opponent>>

\* ------------------------------------------------------- asyncio helpers
\* Variants of full(): the comparison off by one; a queue built without
\* its maxsize.
full_off_by_one == max_concurrent_battles > 0 /\ qsize > max_concurrent_battles
full_without_maxsize == FALSE

\* Variant of full(): a maxsize of 0 read as a capacity of 0.
full_zero_capacity == qsize >= max_concurrent_battles

\* Variant of full(): built without the maxsize <= 0 case, so that a queue
\* of maxsize 0 is full as soon as it holds an entry.
full_when_nonempty == qsize > 0 /\ qsize >= max_concurrent_battles

\* Queue.full(): a queue built with maxsize <= 0 is never full.
full == max_concurrent_battles > 0 /\ qsize >= max_concurrent_battles

\* Lock.release(): the lock goes to the first waiter, if any.
OwnerAfterRelease == IF lock_waiters = <<>> THEN NoTask ELSE Head(lock_waiters)
WaitersAfterRelease == IF lock_waiters = <<>> THEN <<>> ELSE Tail(lock_waiters)

\* Condition.notify_all() on _battle_start_condition: every waiter is made
\* ready; it runs again, and asks for the lock again, in a later step.
NotifyStartPc(p) ==
    [h \in Handlers |-> IF p[h] = "gb_wait" THEN "gb_notified" ELSE p[h]]
\* Variant of line 304: the workflow is not among the woken.
NotifyStartHandlersOnly(w) == w

NotifyStartW(w) == IF w = "start_wait" THEN "start_notified" ELSE w

\* Queue.task_done() reaching zero sets the _finished event (wakes join());
\* then Condition.notify_all() on _battle_end_condition.
WakeOnRelease(w, unf) ==
    IF w = "join_wait" /\ unf = 0 THEN "join_woken"
    ELSE IF w = "end_wait" THEN "end_notified"
    ELSE w

\* A handler that has returned keeps no per-task data.
SetHandler(base, h, newpc, k, t, b) ==
    /\ pc' = [base EXCEPT ![h] = newpc]
    /\ kind' = [kind EXCEPT ![h] = IF newpc \in Final THEN "none" ELSE k]
    /\ tag' = [tag EXCEPT ![h] = IF newpc \in Final THEN 0 ELSE t]
    /\ bat' = [bat EXCEPT ![h] = IF newpc \in Final THEN NoBattle ELSE b]

\* The transport delivers grouped updates one after the other, once the
\* player is logged in; each is handled by its own task.
CanArrive(h) ==
    /\ wpc # "login"
    /\ pc[h] = "idle"
    /\ IF h = 1 THEN TRUE ELSE pc[h - 1] # "idle"

\* The tasks the event loop can start for the next update.
Startable == {h \in Handlers : CanArrive(h)}

\* The values a handler has reached part of the way through its step.
Cur == [pc |-> pc, wpc |-> wpc, qsize |-> qsize, unf |-> unfinished_tasks]

\* ------------------------------------------------- _handle_battle_request
\* Lines 664-683 for a call without maybe_default_order.  itp is
\* battle.in_team_preview; choose_move returns an order or an
\* awaitable.  The command is then handed to ps_client.send_message.
HandleBattleRequest(base, h, k, t, b, from_teampreview_request) ==
    \E itp, awaitable \in BOOLEAN :
        IF itp /\ ~from_teampreview_request
        THEN SetHandler(base, h, "done", k, t, b)
        ELSE IF itp
        THEN SetHandler(base, h, "send", k, t, b)
        ELSE SetHandler(base, h, IF awaitable THEN "choose" ELSE "send", k, t, b)

\* ------------------------------------ _handle_battle_message, lines 552-650
\* Variant of line 571: the callback is handed to a task of its own.
CallbackDeferred(n) == n

\* Line 571: _battle_finished_callback runs, and returns, in the run of the
\* handler that called task_done().
CallbackRuns(n) == n + 1

\* Lines 569-573: the slot is out of the queue; task_done(), the finished
\* callback, notify_all() on _battle_end_condition.
Release(h, k, t, b, s) ==
    /\ qsize' = s.qsize - 1
    /\ IF s.unf <= 0
       THEN /\ SetHandler(s.pc, h, "raised", k, t, b)
            /\ unfinished_tasks' = s.unf
            /\ wpc' = s.wpc
            /\ UNCHANGED <<nrelease, ncallback>>
       ELSE /\ unfinished_tasks' = s.unf - 1
            /\ nrelease' = [nrelease EXCEPT ![t] = @ + 1]
            /\ ncallback' = [ncallback EXCEPT ![t] = CallbackRuns(@)]
            /\ wpc' = WakeOnRelease(s.wpc, s.unf - 1)
            /\ SetHandler(s.pc, h, "done", k, t, b)

\* The state-update pass on the update's line, for battle object b: won_by
\* or tied (lines 564-568) make the battle finished.
ProcessLine(h, k, t, b, s) ==
    IF k = "win_or_tie"
    THEN /\ finished' = [finished EXCEPT ![b] = TRUE]
         /\ IF s.qsize > 0
            THEN Release(h, k, t, b, s)
            ELSE /\ SetHandler(s.pc, h, "get_wait", k, t, b)
                 /\ qsize' = s.qsize
                 /\ unfinished_tasks' = s.unf
                 /\ wpc' = s.wpc
                 /\ UNCHANGED <<nrelease, ncallback>>
    ELSE /\ IF k = "turn"
            THEN HandleBattleRequest(s.pc, h, k, t, b, FALSE)
            ELSE SetHandler(s.pc, h, "done", k, t, b)
         /\ qsize' = s.qsize
         /\ unfinished_tasks' = s.unf
         /\ wpc' = s.wpc
         /\ UNCHANGED <<finished, nrelease, ncallback>>

HandlerVars == <<pc, kind, tag, bat>>
LineVars == <<finished, qsize, unfinished_tasks, nrelease, ncallback, wpc,
             HandlerVars>>

\* Line 569: the suspended get() finds an entry.
GetResume(h) ==
    /\ pc[h] = "get_wait"
    /\ qsize > 0
    /\ Release(h, kind[h], tag[h], bat[h], Cur)
    /\ UNCHANGED <<config, msgvars, battles, finished, battle_semaphore, lock_owner,
                   lock_waiters, challenge_queue, wi, nadmit, nresets,
                   reset_result>>

\* Line 673: the awaited choose_move completes.
ChooseDone(h) ==
    /\ pc[h] = "choose"
    /\ pc' = [pc EXCEPT ![h] = "send"]
    /\ UNCHANGED <<config, msgvars, battles, finished, qsize, unfinished_tasks,
                   battle_semaphore, lock_owner, lock_waiters, challenge_queue,
                   kind, tag, bat, wpc, wi, nadmit, nrelease, ncallback, nresets,
                   reset_result>>

\* --------------------------------------------------------- _create_battle
\* The default of line 61.
start_timer_on_battle_start == FALSE

\* Variant of line 300: the reserved slot is kept.
QsizeSlotKept == qsize + 1

\* Line 300: the slot reserved at line 298 is taken out of the queue again.
QsizeAfterLostRace == (qsize + 1) - 1

\* Lines 299-301: the battle returned when the tag is found registered.
RegisteredBattle(h, t) == battles[t]

\* Lines 302-310, run with the condition's lock held: release the
\* semaphore, notify the waiters, write the registry; then the lines of
\* the update are processed.
Register(h, k, t, s) ==
    LET s2 == [s EXCEPT !.pc = NotifyStartPc(s.pc), !.wpc = NotifyStartW(s.wpc)] IN
    /\ battle_semaphore' = battle_semaphore + 1
    /\ battles' = [battles EXCEPT ![t] = h]
    /\ nadmit' = [nadmit EXCEPT ![t] = @ + 1]
    /\ IF start_timer_on_battle_start
       THEN /\ SetHandler(s2.pc, h, "timer", k, t, h)
            /\ qsize' = s2.qsize
            /\ unfinished_tasks' = s2.unf
            /\ wpc' = s2.wpc
            /\ UNCHANGED <<finished, nrelease, ncallback>>
       ELSE ProcessLine(h, k, t, h, s2)

\* Lines 298-305, entered once the queue has room for put().
AfterPut(h, k, t) ==
    IF battles[t] # NoBattle
    THEN /\ ProcessLine(h, k, t, RegisteredBattle(h, t),
                        [Cur EXCEPT !.qsize = QsizeAfterLostRace, !.unf = @ + 1])
         /\ UNCHANGED <<battles, battle_semaphore, lock_owner, lock_waiters, nadmit>>
    ELSE IF lock_owner = NoTask
    THEN /\ Register(h, k, t, [Cur EXCEPT !.qsize = @ + 1, !.unf = @ + 1])
         /\ UNCHANGED <<lock_owner, lock_waiters>>
    ELSE /\ lock_waiters' = Append(lock_waiters, h)
         /\ SetHandler(pc, h, "lock_wait", k, t, h)
         /\ qsize' = qsize + 1
         /\ unfinished_tasks' = unfinished_tasks + 1
         /\ UNCHANGED <<battles, battle_semaphore, lock_owner, nadmit, finished,
                        nrelease, ncallback, wpc>>

\* _handle_battle_message on an update whose second line is "init":
\* _create_battle, lines 272-298; k is the line that follows.
CreateBattle(h, k, t) ==
    /\ CanArrive(h)
    /\ IF FormatOf(t) # format
       THEN /\ SetHandler(pc, h, "raised", k, t, NoBattle)
            /\ UNCHANGED <<battles, battle_semaphore, lock_owner, lock_waiters, nadmit,
                           finished, qsize, unfinished_tasks, nrelease, ncallback, wpc>>
       ELSE IF battles[t] # NoBattle
       THEN /\ ProcessLine(h, k, t, battles[t], Cur)
            /\ UNCHANGED <<battles, battle_semaphore, lock_owner, lock_waiters, nadmit>>
       ELSE IF full
       THEN /\ SetHandler(pc, h, "put_wait", k, t, h)
            /\ UNCHANGED <<battles, battle_semaphore, lock_owner, lock_waiters, nadmit,
                           finished, qsize, unfinished_tasks, nrelease, ncallback, wpc>>
       ELSE AfterPut(h, k, t)
    /\ UNCHANGED <<config, msgvars, challenge_queue, wi, nresets, reset_result>>

\* Line 298: the suspended put() finds room.  (Queue.put wakes its waiters
\* in arrival order and a woken waiter that finds the queue full again waits
\* again; which of the waiting handlers takes the room is left open here.)
PutResume(h) ==
    /\ pc[h] = "put_wait"
    /\ ~full
    /\ AfterPut(h, kind[h], tag[h])
    /\ UNCHANGED <<config, msgvars, challenge_queue, wi, nresets, reset_result>>

\* Line 302: the lock of _battle_start_condition is handed to the creator.
CreateLocked(h) ==
    /\ pc[h] = "lock_wait"
    /\ lock_owner = h
    /\ Register(h, kind[h], tag[h], Cur)
    /\ lock_owner' = OwnerAfterRelease
    /\ lock_waiters' = WaitersAfterRelease
    /\ UNCHANGED <<config, msgvars, challenge_queue, wi, nresets, reset_result>>

\* Lines 308 and 683: ps_client.send_message completes.  After the
\* "/timer on" message of line 308 the lines of the update follow.
SendDone(h) ==
    /\ pc[h] \in {"send", "timer"}
    /\ IF pc[h] = "timer"
       THEN ProcessLine(h, kind[h], tag[h], bat[h], Cur)
       ELSE /\ SetHandler(pc, h, "done", kind[h], tag[h], bat[h])
            /\ UNCHANGED <<finished, qsize, unfinished_tasks, nrelease, ncallback, wpc>>
    /\ UNCHANGED <<config, msgvars, battles, battle_semaphore, lock_owner, lock_waiters,
                   challenge_queue, wi, nadmit, nresets, reset_result>>

\* ------------------------------------------------------------ _get_battle
\* The line of an update: "win_or_tie" is the branch of line 564, "turn" that
\* of line 641, "other" any line that only goes to battle.parse_message.
LineKinds == {"win_or_tie", "turn"}
InitLineKinds == {"other", "win_or_tie", "turn"}

\* _handle_battle_message on an update without "init": _get_battle, lines
\* 317-323, then the lines of the update.
GetBattle(h, k, t) ==
    /\ CanArrive(h)
    /\ IF battles[t] # NoBattle
       THEN /\ ProcessLine(h, k, t, battles[t], Cur)
            /\ UNCHANGED <<lock_owner, lock_waiters>>
       ELSE IF lock_owner = NoTask
       THEN /\ SetHandler(pc, h, "gb_wait", k, t, NoBattle)
            /\ UNCHANGED <<lock_owner, lock_waiters, finished, qsize,
                           unfinished_tasks, nrelease, ncallback, wpc>>
       ELSE /\ lock_waiters' = Append(lock_waiters, h)
            /\ SetHandler(pc, h, "gb_lock", k, t, NoBattle)
            /\ UNCHANGED <<lock_owner, finished, qsize, unfinished_tasks, nrelease, ncallback, wpc>>
    /\ UNCHANGED <<config, msgvars, battles, battle_semaphore, challenge_queue, wi, nadmit,
                   nresets, reset_result>>

\* Line 322 -> 323: the lock is handed over; wait() releases it.
GetBattleLocked(h) ==
    /\ pc[h] = "gb_lock"
    /\ lock_owner = h
    /\ lock_owner' = OwnerAfterRelease
    /\ lock_waiters' = WaitersAfterRelease
    /\ pc' = [pc EXCEPT ![h] = "gb_wait"]
    /\ UNCHANGED <<config, msgvars, battles, battle_semaphore, challenge_queue, wi, nadmit,
                   nresets, reset_result, finished, qsize, unfinished_tasks,
                   nrelease, ncallback, wpc, kind, tag, bat>>

\* Line 323: the notified waiter runs again and asks for the lock again.
GetBattleNotified(h) ==
    /\ pc[h] = "gb_notified"
    /\ IF lock_owner # NoTask
       THEN /\ lock_waiters' = Append(lock_waiters, h)
            /\ pc' = [pc EXCEPT ![h] = "gb_relock"]
            /\ UNCHANGED <<lock_owner, finished, qsize, unfinished_tasks, nrelease, ncallback,
                           wpc, kind, tag, bat>>
       ELSE IF battles[tag[h]] # NoBattle
       THEN /\ ProcessLine(h, kind[h], tag[h], battles[tag[h]], Cur)
            /\ UNCHANGED <<lock_owner, lock_waiters>>
       ELSE /\ pc' = [pc EXCEPT ![h] = "gb_wait"]
            /\ UNCHANGED <<lock_owner, lock_waiters, finished, qsize,
                           unfinished_tasks, nrelease, ncallback, wpc, kind, tag, bat>>
    /\ UNCHANGED <<config, msgvars, battles, battle_semaphore, challenge_queue, wi, nadmit,
                   nresets, reset_result>>

\* Line 323 -> 320: wait() has the lock again, the with block releases it,
\* the loop looks the tag up again and, if absent, waits again.
GetBattleRelocked(h) ==
    /\ pc[h] = "gb_relock"
    /\ lock_owner = h
    /\ IF battles[tag[h]] # NoBattle
       THEN /\ ProcessLine(h, kind[h], tag[h], battles[tag[h]], Cur)
            /\ lock_owner' = OwnerAfterRelease
            /\ lock_waiters' = WaitersAfterRelease
       ELSE IF lock_waiters = <<>>
       THEN /\ pc' = [pc EXCEPT ![h] = "gb_wait"]
            /\ lock_owner' = NoTask
            /\ UNCHANGED <<lock_waiters, finished, qsize, unfinished_tasks, nrelease, ncallback,
                           wpc, kind, tag, bat>>
       ELSE /\ pc' = [pc EXCEPT ![h] = "gb_lock"]
            /\ lock_owner' = Head(lock_waiters)
            /\ lock_waiters' = Append(Tail(lock_waiters), h)
            /\ UNCHANGED <<finished, qsize, unfinished_tasks, nrelease, ncallback, wpc, kind,
                           tag, bat>>
    /\ UNCHANGED <<config, msgvars, battles, battle_semaphore, challenge_queue, wi, nadmit,
                   nresets, reset_result>>

\* ------------------------------------------------------ session workflows
username == "me"

\* poke_env.data.to_id_str on the names used here: lower case, letters and
\* digits only.
to_id_str(u) == IF u = "Opp" THEN "opp" ELSE u

Opponents == { [type |-> "none", names |-> <<>>],
               [type |-> "str", names |-> <<"Opp">>],
               [type |-> "list", names |-> <<"Opp", "me">>] }

\* Lines 749-753 and 763-767: opponent is normalised once, the challenger
\* when it is taken from the queue.
Accepts(u) ==
    \/ opponent.type = "none"
    \/ opponent.type = "str" /\ to_id_str(opponent.names[1]) = to_id_str(u)
    \/ opponent.type = "list"
       /\ \E i \in 1..Len(opponent.names) : to_id_str(opponent.names[i]) = to_id_str(u)

\* Variant of lines 758-767 without the test of lines 763-767.
DropNothing(q) == q

\* Lines 758-767: challengers taken from the queue and not accepted are
\* dropped; the loop stops at the first accepted one or at an empty queue.
RECURSIVE DropRefused(_)
DropRefused(q) ==
    IF q = <<>> THEN <<>>
    ELSE IF Accepts(Head(q)) THEN q
    ELSE DropRefused(Tail(q))

WState == [wpc |-> wpc, wi |-> wi, owner |-> lock_owner, waiters |-> lock_waiters,
           q |-> challenge_queue, sem |-> battle_semaphore]

ApplyW(r) ==
    /\ wpc' = r.wpc
    /\ wi' = r.wi
    /\ lock_owner' = r.owner
    /\ lock_waiters' = r.waiters
    /\ challenge_queue' = r.q
    /\ battle_semaphore' = r.sem

\* Lines 759-768 / 1017-1027: challenge_queue.get() until a challenger is
\* accepted; accept_challenge is then sent.
TakeChallenge(r) ==
    LET rest == DropRefused(r.q) IN
    IF rest = <<>>
    THEN [r EXCEPT !.wpc = "chq_wait", !.q = <<>>]
    ELSE [r EXCEPT !.wpc = "accept_send", !.q = Tail(rest)]

\* Queue.join(), lines 771, 959, 1034, 1097.
Join(r) == [r EXCEPT !.wpc = IF unfinished_tasks > 0 THEN "join_wait" ELSE "done"]

HoldsLock == workflow \in {"ladder", "ladder_accept"}

\* The head of the for loop of the running workflow (lines 757, 951, 1014,
\* 1094) up to its first suspension.
LoopHead(r) ==
    IF r.wi = n_games THEN Join(r)
    ELSE IF workflow = "send_challenges" THEN [r EXCEPT !.wpc = "challenge_send"]
    ELSE IF workflow = "accept_challenges" THEN TakeChallenge(r)
    ELSE IF r.owner # NoTask
    THEN [r EXCEPT !.wpc = "w_lock", !.waiters = Append(r.waiters, WF)]
    ELSE IF workflow = "ladder" THEN [r EXCEPT !.wpc = "search", !.owner = WF]
    ELSE TakeChallenge([r EXCEPT !.owner = WF])

\* The end of one iteration: the with block, if any, releases the lock.
EndIteration(r) ==
    LET out == IF HoldsLock
               THEN [r EXCEPT !.owner = IF r.waiters = <<>> THEN NoTask
                                        ELSE Head(r.waiters),
                              !.waiters = IF r.waiters = <<>> THEN <<>>
                                          ELSE Tail(r.waiters)]
               ELSE r
    IN LoopHead([out EXCEPT !.wi = r.wi + 1])

\* Variant of Semaphore.acquire() that leaves the permit in place.
SemAcquireKeepsPermit(r) ==
    IF r.sem > 0
    THEN EndIteration(r)
    ELSE [r EXCEPT !.wpc = "sem_wait"]

\* _battle_semaphore.acquire(), lines 769, 958, 1032, 1096.
SemAcquire(r) ==
    IF r.sem > 0
    THEN EndIteration([r EXCEPT !.sem = r.sem - 1])
    ELSE [r EXCEPT !.wpc = "sem_wait"]

\* Variant of lines 955-958 / 1029-1032 without the while loop.
AfterStartUnchecked(r) == SemAcquire(r)

\* Lines 955-958 / 1029-1032, with the start condition's lock held.
AfterStart(r) ==
    IF full THEN [r EXCEPT !.wpc = "end_wait"] ELSE SemAcquire(r)

WUnchanged == <<config, msgvars, battles, finished, qsize, unfinished_tasks, pc, kind, tag,
                bat, nadmit, nrelease, ncallback, nresets, reset_result>>

\* ps_client.logged_in is set: the workflow enters its loop.
LoggedIn ==
    /\ wpc = "login"
    /\ ApplyW(LoopHead(WState))
    /\ UNCHANGED WUnchanged

\* Lines 952 / 1015: the lock is handed to the workflow.
WorkflowLocked ==
    /\ wpc = "w_lock"
    /\ lock_owner = WF
    /\ ApplyW(IF workflow = "ladder" THEN [WState EXCEPT !.wpc = "search"]
              ELSE TakeChallenge(WState))
    /\ UNCHANGED WUnchanged

\* Lines 759 / 1017: the suspended challenge_queue.get() finds an entry.
ChallengeTaken ==
    /\ wpc = "chq_wait"
    /\ challenge_queue # <<>>
    /\ ApplyW(TakeChallenge(WState))
    /\ UNCHANGED WUnchanged

\* The command sent by the iteration (search_ladder_game, accept_challenge,
\* challenge) has gone out.  The ladder workflows then wait on the start
\* condition, which releases its lock; the others acquire the semaphore.
CommandSent ==
    /\ wpc \in {"search", "accept_send", "challenge_send"}
    /\ ApplyW(IF HoldsLock
              THEN [WState EXCEPT !.wpc = "start_wait",
                                  !.owner = OwnerAfterRelease,
                                  !.waiters = WaitersAfterRelease]
              ELSE SemAcquire(WState))
    /\ UNCHANGED WUnchanged

\* Lines 954 / 1028: notified, the workflow asks for the lock again.
StartNotified ==
    /\ wpc = "start_notified"
    /\ ApplyW(IF lock_owner # NoTask
              THEN [WState EXCEPT !.wpc = "relock",
                                  !.waiters = Append(lock_waiters, WF)]
              ELSE AfterStart([WState EXCEPT !.owner = WF]))
    /\ UNCHANGED WUnchanged

WorkflowRelocked ==
    /\ wpc = "relock"
    /\ lock_owner = WF
    /\ ApplyW(AfterStart(WState))
    /\ UNCHANGED WUnchanged

\* Lines 955-957 / 1029-1031: woken on the end condition, look again.
EndNotified ==
    /\ wpc = "end_notified"
    /\ ApplyW(AfterStart(WState))
    /\ UNCHANGED WUnchanged

\* The suspended _battle_semaphore.acquire() finds a permit.
SemResume ==
    /\ wpc = "sem_wait"
    /\ battle_semaphore > 0
    /\ ApplyW(SemAcquire(WState))
    /\ UNCHANGED WUnchanged

\* Queue.join(): the waiter woken by the _finished event returns.
JoinReturn ==
    /\ wpc = "join_woken"
    /\ wpc' = "done"
    /\ UNCHANGED <<WUnchanged, wi, lock_owner, lock_waiters, challenge_queue,
                   battle_semaphore>>

\* Variant of lines 690-691 and 706-707 without the test on the format.
EnqueueAnyFormat(q, u, f) == Append(q, u)

\* Lines 690-691 and 706-707: the challenger is put on the queue if the
\* offered format is the player's.
EnqueueIfFormat(q, u, f) == IF f = format THEN Append(q, u) ELSE q

\* _handle_challenge_request, lines 685-692.
HandleChallengeRequest(u, f) ==
    /\ workflow \in {"accept_challenges", "ladder_accept"}
    /\ wpc \notin {"login", "done"}
    /\ Len(challenge_queue) < MaxChallenges
    /\ challenge_queue' = IF u # username
                          THEN EnqueueIfFormat(challenge_queue, u, f)
                          ELSE challenge_queue
    /\ UNCHANGED <<config, msgvars, battles, finished, qsize, unfinished_tasks,
                   battle_semaphore, lock_owner, lock_waiters, pc, kind, tag, bat,
                   wpc, wi, nadmit, nrelease, ncallback, nresets, reset_result>>

\* Lines 705-707: the loop over the items of "challengesFrom", in the
\* order of the JSON object; cs is a sequence of <<user, format>>.
RECURSIVE EnqueueAll(_, _)
EnqueueAll(q, cs) ==
    IF cs = <<>> THEN q
    ELSE EnqueueAll(EnqueueIfFormat(q, Head(cs)[1], Head(cs)[2]), Tail(cs))

\* The values of "challengesFrom": each user at most once.
ChallengesFrom ==
    LET offers == {<<u, f>> : u \in Users, f \in {format, "gen8ou"}} IN
    {<<>>} \cup {<<o>> : o \in offers}
           \cup {p \in {<<o1, o2>> : o1 \in offers, o2 \in offers} : p[1][1] # p[2][1]}

\* _update_challenges, lines 694-707.  put() on the unbounded challenge
\* queue does not wait.
UpdateChallenges(cs) ==
    /\ workflow \in {"accept_challenges", "ladder_accept"}
    /\ wpc \notin {"login", "done"}
    /\ Len(challenge_queue) + Len(cs) <= MaxQueue
    /\ challenge_queue' = EnqueueAll(challenge_queue, cs)
    /\ UNCHANGED <<config, msgvars, battles, finished, qsize, unfinished_tasks,
                   battle_semaphore, lock_owner, lock_waiters, pc, kind, tag, bat,
                   wpc, wi, nadmit, nrelease, ncallback, nresets, reset_result>>

\* ----------------------------------------------------------- reset_battles
\* Lines 1118-1122: the loop over the registered battles; TRUE when it
\* meets a battle that is not finished.
RECURSIVE ResetRaises(_, _)
ResetRaises(bs, t) ==
    IF t > NTags THEN FALSE
    ELSE IF bs[t] # NoBattle /\ ~finished[bs[t]] THEN TRUE
    ELSE ResetRaises(bs, t + 1)

\* Variant of reset_battles: the registry is emptied before the loop runs.
reset_battles_clears_first(bs) == [t \in Tags |-> NoBattle]

\* Lines 1116-1123: the registry after the call.
reset_battles(bs) ==
    IF ResetRaises(bs, 0) THEN bs ELSE [t \in Tags |-> NoBattle]

ResetBattles ==
    /\ nresets < MaxResets
    /\ nresets' = nresets + 1
    /\ reset_result' = IF ResetRaises(battles, 0) THEN "raised" ELSE "cleared"
    /\ battles' = reset_battles(battles)
    /\ UNCHANGED <<config, msgvars, finished, qsize, unfinished_tasks, battle_semaphore,
                   lock_owner, lock_waiters, challenge_queue, pc, kind, tag, bat,
                   wpc, wi, nadmit, nrelease, ncallback>>

\* ------------------------------------------- the lines of a grouped update
\* The Pokemon identifiers of narration lines (msg[idx][2]).
Actors == {"p1a: Pikachu", "p2a: Zoroark"}

\* The texts of error lines are sequences of fragments; no fragment is the
\* beginning of another.
Inv == "[Invalid choice]"
Unav == "[Unavailable choice]"
CantSwitch == " Can't switch: "
CantMove == " Can't move: "
IsDisabled == "is disabled"

Fragments ==
    {" Sorry, too late to make a different move", CantSwitch,
     "The active Pokemon is trapped", "You can't switch to an active Pokemon",
     "You can't switch to a fainted Pokemon", CantMove, "Invalid target for",
     "You can't choose a target for", "needs a target", "Your",
     " doesn't have a move matching ", " Incomplete choice: ", IsDisabled,
     "You sent more choices than unfainted Pokemon.", "can't Terastallize.",
     " Thunderbolt "}

\* str.startswith, str.endswith and the `in` operator on strings.
StartsWith(s, p) == Len(s) >= Len(p) /\ SubSeq(s, 1, Len(p)) = p
EndsWith(s, p) == Len(s) >= Len(p) /\ SubSeq(s, Len(s) - Len(p) + 1, Len(s)) = p
Contains(s, p) ==
    \E i \in 1..(Len(s) + 1) :
        i + Len(p) - 1 <= Len(s) /\ SubSeq(s, i, i + Len(p) - 1) = p

\* Variant of line 618: the text must be the prefix itself.
IncompleteChoiceExact(s) == s = <<Inv, " Incomplete choice: ">>

\* Line 618.
IncompleteChoice(s) == StartsWith(s, <<Inv, " Incomplete choice: ">>)

\* Variant of lines 622-629 without the second elif (lines 626-629).
DisabledUnavailableOnly(s) == StartsWith(s, <<Unav>>) /\ EndsWith(s, <<IsDisabled>>)

\* Lines 622-629: two elif branches with the same body.
Disabled(s) ==
    \/ StartsWith(s, <<Unav>>) /\ EndsWith(s, <<IsDisabled>>)
    \/ StartsWith(s, <<Inv>>) /\ EndsWith(s, <<IsDisabled>>)

\* Lines 574-640: the first row of the error table that the text matches
\* (0: none, the line is only logged).
ErrorRow(s) ==
    IF StartsWith(s, <<Inv, " Sorry, too late to make a different move">>) THEN 1
    ELSE IF \/ StartsWith(s, <<Unav, CantSwitch, "The active Pokemon is trapped">>)
            \/ StartsWith(s, <<Inv, CantSwitch, "The active Pokemon is trapped">>) THEN 2
    ELSE IF StartsWith(s, <<Inv, CantSwitch, "You can't switch to an active Pokemon">>) THEN 3
    ELSE IF StartsWith(s, <<Inv, CantSwitch, "You can't switch to a fainted Pokemon">>) THEN 4
    ELSE IF StartsWith(s, <<Inv, CantMove, "Invalid target for">>) THEN 5
    ELSE IF StartsWith(s, <<Inv, CantMove, "You can't choose a target for">>) THEN 6
    ELSE IF StartsWith(s, <<Inv, CantMove>>) /\ EndsWith(s, <<"needs a target">>) THEN 7
    ELSE IF /\ StartsWith(s, <<Inv, CantMove, "Your">>)
            /\ Contains(s, <<" doesn't have a move matching ">>) THEN 8
    ELSE IF IncompleteChoice(s) THEN 9
    ELSE IF Disabled(s) THEN 10
    ELSE IF StartsWith(s, <<Inv, CantMove,
                            "You sent more choices than unfainted Pokemon.">>) THEN 11
    ELSE IF StartsWith(s, <<Inv, CantMove>>) /\ EndsWith(s, <<"can't Terastallize.">>) THEN 12
    ELSE 0

\* What a line of the state-update pass asks for: a decision request (req)
\* with its two flags, and the battle attributes it sets.
NoEffect == [req |-> FALSE, mdo |-> FALSE, ftp |-> FALSE, trap |-> FALSE,
             mo |-> FALSE, cont |-> "none"]

\* Variant of lines 639-640: an unknown error asks for a new choice.
ElseBranchRetries == [NoEffect EXCEPT !.req = TRUE, !.mdo = TRUE]

\* Lines 639-640: an error that matches no row is logged.
ElseBranch == NoEffect

\* Variant of lines 578-582 without the test of line 581.
TooLateAlwaysRetries(tr) == [NoEffect EXCEPT !.req = TRUE]

\* Lines 578-582: a new request only if the battle is trapped.
TooLate(tr) == [NoEffect EXCEPT !.req = tr]

\* Variant of lines 589-590 in the other order: the request is made, and
\* the callback called, before trapped is set.
TrappedBeforeError(before, after) == before

\* Lines 589-590: battle.trapped is set before _handle_battle_request is
\* called, so the callback reads the value after the line's own write.
TrappedAtCall(before, after) == after

\* Lines 578-640: the body of each row; tr is battle.trapped.
RowEffect(row, tr) ==
    IF row = 1 THEN TooLate(tr)
    ELSE IF row = 2 THEN [NoEffect EXCEPT !.req = TRUE, !.trap = TRUE]
    ELSE IF row = 10 THEN [NoEffect EXCEPT !.mo = TRUE]
    ELSE IF row = 0 THEN ElseBranch
    ELSE [NoEffect EXCEPT !.req = TRUE, !.mdo = TRUE]

\* Lines 553-650: the branch taken for a line of kind k; mo is
\* battle.move_on_next_request.  The request that follows a "request" line
\* is followed in turn by line 563.
LineEffect(k, text, tr, mo) ==
    IF k = "request" THEN [NoEffect EXCEPT !.req = mo,
                                           !.cont = IF mo THEN "clear_flag" ELSE "none"]
    ELSE IF k = "error" THEN RowEffect(ErrorRow(text), tr)
    ELSE IF k = "turn" THEN [NoEffect EXCEPT !.req = TRUE]
    ELSE IF k = "teampreview" THEN [NoEffect EXCEPT !.req = TRUE, !.ftp = TRUE]
    ELSE NoEffect

\* The lines handed to Battle.parse_request or Battle.parse_message, which
\* may set the attributes of the battle that the player reads afterwards.
ParsedKinds == {"request", "turn", "teampreview", "other"}

\* The values an attribute v of the battle can have after the line's parse.
AfterParse(k, v) == IF k \in ParsedKinds THEN BOOLEAN ELSE {v}

\* What choose_move gives: an order, an awaitable, nothing, or an exception.
Returns == {"order", "awaitable", "none", "raises"}

NoCycle == [called |-> "none", message |-> "none", next |-> "continue"]

\* Variant of lines 678-681 without the test for None.
CommandWithoutNoneTest(result) == "order"

\* Lines 678-681: the default order's message if choose_move gave None,
\* else the message of the order it gave.
CommandFor(result) == IF result = "none" THEN "default" ELSE "order"

\* Variant of lines 664-669: team preview is looked at before the draw.
handle_battle_request_preview_first(itp, ftp, mdo, draw, cm) ==
    IF itp
    THEN IF ~ftp THEN NoCycle
         ELSE [called |-> "teampreview", message |-> "team", next |-> "send"]
    ELSE IF mdo /\ draw
    THEN [called |-> "none", message |-> "default", next |-> "send"]
    ELSE IF cm = "order"
    THEN [called |-> "choose_move", message |-> "order", next |-> "send"]
    ELSE IF cm = "awaitable"
    THEN [called |-> "choose_move", message |-> "none", next |-> "choose"]
    ELSE IF cm = "none"
    THEN [called |-> "choose_move", message |-> "default", next |-> "send"]
    ELSE [called |-> "choose_move", message |-> "none", next |-> "raised"]

\* Variant of lines 666-669 without the early return.
handle_battle_request_no_return(itp, ftp, mdo, draw, cm) ==
    IF mdo /\ draw
    THEN [called |-> "none", message |-> "default", next |-> "send"]
    ELSE IF itp
    THEN [called |-> "teampreview", message |-> "team", next |-> "send"]
    ELSE IF cm = "order"
    THEN [called |-> "choose_move", message |-> "order", next |-> "send"]
    ELSE IF cm = "awaitable"
    THEN [called |-> "choose_move", message |-> "none", next |-> "choose"]
    ELSE IF cm = "none"
    THEN [called |-> "choose_move", message |-> "default", next |-> "send"]
    ELSE [called |-> "choose_move", message |-> "none", next |-> "raised"]

\* Lines 664-683, up to the first suspension: the callback called, the
\* command chosen so far and where the call goes on.  itp is
\* battle.in_team_preview, draw is random.random() < DEFAULT_CHOICE_CHANCE,
\* cm is what choose_move gives.  No statement catches an exception.
handle_battle_request(itp, ftp, mdo, draw, cm) ==
    IF mdo /\ draw
    THEN [called |-> "none", message |-> "default", next |-> "send"]
    ELSE IF itp
    THEN IF ~ftp THEN NoCycle
         ELSE [called |-> "teampreview", message |-> "team", next |-> "send"]
    ELSE IF cm \in {"order", "none"}
    THEN [called |-> "choose_move", message |-> CommandFor(cm), next |-> "send"]
    ELSE IF cm = "awaitable"
    THEN [called |-> "choose_move", message |-> "none", next |-> "choose"]
    ELSE [called |-> "choose_move", message |-> "none", next |-> "raised"]

\* ------------------------------ _handle_battle_message, one line at a time
NoLine == [kind |-> "none", text |-> <<>>, draw |-> FALSE]

MsgFixed == <<config, battles, battle_semaphore, lock_owner, lock_waiters,
              challenge_queue, kind, wi, nadmit, nresets, reset_result,
              pokemon_hp_log_dict, idx, speed_list>>
GateVars == <<finished, qsize, unfinished_tasks, nrelease, ncallback, wpc>>

\* The step calls neither _handle_battle_request nor a decision callback,
\* and processes no line.
NoCall ==
    /\ requested' = "none" /\ called' = "none" /\ last_error' = <<>>
    /\ seen_trapped' = FALSE
    /\ owed' = owed

\* The handler returns (f = "done") or an exception ends it (f = "raised").
Finish(h, f) ==
    /\ pc' = [pc EXCEPT ![h] = f]
    /\ tag' = [tag EXCEPT ![h] = 0]
    /\ bat' = [bat EXCEPT ![h] = NoBattle]
    /\ nlines' = [nlines EXCEPT ![h] = 0]
    /\ li' = [li EXCEPT ![h] = 0]
    /\ cont' = [cont EXCEPT ![h] = "none"]
    /\ message' = [message EXCEPT ![h] = "none"]
    /\ running' = 0
    /\ cur' = NoLine

\* The handler suspends at p while it works on its line.
Suspend(h, p, m, c) ==
    /\ pc' = [pc EXCEPT ![h] = p]
    /\ li' = [li EXCEPT ![h] = @ + 1]
    /\ cont' = [cont EXCEPT ![h] = c]
    /\ message' = [message EXCEPT ![h] = m]
    /\ running' = 0
    /\ cur' = NoLine
    /\ UNCHANGED <<tag, bat, nlines>>

\* Line 552: the loop goes to the next line, or ends.
Continue(h) ==
    IF li[h] + 1 = nlines[h]
    THEN Finish(h, "done")
    ELSE /\ li' = [li EXCEPT ![h] = @ + 1]
         /\ cur' = NoLine
         /\ UNCHANGED <<pc, tag, bat, nlines, cont, message, running>>

\* Variant of lines 550-552: the handler yields between the two passes.
YieldsAfterNarration(h) == 0

\* Lines 342-552 hold no await: the handler that has done the narration
\* pass is still the running one when the state-update pass starts.
RunningAfterNarration(h) == h

\* Lines 342-343: the narration pass walks split_messages[3:].
NarrationLines(n) == IF n + 1 > 3 THEN n - 2 ELSE 0

\* Lines 332-551 for an update of n lines after its header, on a registered
\* battle: _get_battle returns without waiting, then the narration pass adds
\* w descriptions to battle_msg_history and ends or raises.
MsgArrive(h, t, n, w, ok) ==
    /\ running = 0
    /\ CanArrive(h)
    /\ battles[t] # NoBattle
    /\ w <= NarrationLines(n)
    /\ ok \/ NarrationLines(n) > 0
    /\ history' = [history EXCEPT ![battles[t]] = @ + w]
    /\ IF ~ok THEN Finish(h, "raised")
       ELSE IF n = 0 THEN Finish(h, "done")
       ELSE /\ pc' = [pc EXCEPT ![h] = "pass"]
            /\ tag' = [tag EXCEPT ![h] = t]
            /\ bat' = [bat EXCEPT ![h] = battles[t]]
            /\ nlines' = [nlines EXCEPT ![h] = n]
            /\ running' = RunningAfterNarration(h)
            /\ UNCHANGED <<li, cont, message, cur>>
    /\ NoCall
    /\ UNCHANGED <<MsgFixed, GateVars, trapped, move_on_next_request,
                   in_team_preview>>

\* Line 552: the state-update pass takes its next line.
MsgTake(h, line) ==
    /\ running = h
    /\ pc[h] = "pass"
    /\ cur = NoLine
    /\ cur' = line
    /\ NoCall
    /\ UNCHANGED <<MsgFixed, GateVars, pc, tag, bat, running, nlines,
                   li, cont, message, history, trapped, move_on_next_request,
                   in_team_preview>>

\* Lines 553-650 for the line taken, up to the next line or to the first
\* suspension.
MsgProcess(h) ==
    /\ running = h
    /\ cur # NoLine
    /\ \E cm \in Returns,
          itp \in AfterParse(cur.kind, in_team_preview[bat[h]]),
          tr \in AfterParse(cur.kind, trapped[bat[h]]) :
        LET b == bat[h]
            t == tag[h]
            k == cur.kind
            itp2 == itp
            tr1 == tr
            a == LineEffect(k, cur.text, tr1, move_on_next_request[b])
            o == IF a.req
                 THEN handle_battle_request(itp2, a.ftp, a.mdo, cur.draw, cm)
                 ELSE NoCycle
            returned == a.req /\ o.next = "continue"
        IN  /\ in_team_preview' = [in_team_preview EXCEPT ![b] = itp2]
            /\ trapped' = [trapped EXCEPT ![b] = tr1 \/ a.trap]
            /\ move_on_next_request' =
                   [move_on_next_request EXCEPT ![b] =
                        IF a.mo THEN TRUE
                        ELSE IF returned /\ a.cont = "clear_flag" THEN FALSE
                        ELSE @]
            /\ requested' = IF ~a.req THEN "none"
                             ELSE IF a.mdo THEN "maybe_default_order"
                             ELSE "plain"
            /\ called' = o.called
            /\ last_error' = IF k = "error" THEN cur.text ELSE <<>>
            /\ seen_trapped' = (o.called # "none" /\ TrappedAtCall(tr1, tr1 \/ a.trap))
            /\ owed' = [owed EXCEPT ![b] = IF a.mo THEN TRUE
                                           ELSE IF k = "request" THEN FALSE
                                           ELSE @]
            /\ IF k = "win_or_tie"
               THEN /\ finished' = [finished EXCEPT ![b] = TRUE]
                    /\ IF qsize = 0
                       THEN /\ Suspend(h, "get_wait", "none", "none")
                            /\ UNCHANGED <<qsize, unfinished_tasks, nrelease,
                                           ncallback, wpc>>
                       ELSE /\ qsize' = qsize - 1
                            /\ IF unfinished_tasks <= 0
                               THEN /\ Finish(h, "raised")
                                    /\ UNCHANGED <<unfinished_tasks, nrelease,
                                                   ncallback, wpc>>
                               ELSE /\ unfinished_tasks' = unfinished_tasks - 1
                                    /\ nrelease' = [nrelease EXCEPT ![t] = @ + 1]
                                    /\ ncallback' =
                                         [ncallback EXCEPT ![t] = CallbackRuns(@)]
                                    /\ wpc' = WakeOnRelease(wpc, unfinished_tasks - 1)
                                    /\ Continue(h)
               ELSE /\ UNCHANGED GateVars
                    /\ IF o.next = "continue" THEN Continue(h)
                       ELSE IF o.next = "raised" THEN Finish(h, "raised")
                       ELSE Suspend(h, o.next, o.message, a.cont)
    /\ UNCHANGED <<MsgFixed, history>>

\* Line 673: the awaited choose_move completes (r: what it gives).
MsgChooseDone(h, r) ==
    /\ running = 0
    /\ pc[h] = "choose"
    /\ IF r = "raises"
       THEN Finish(h, "raised")
       ELSE /\ pc' = [pc EXCEPT ![h] = "send"]
            /\ message' = [message EXCEPT ![h] = CommandFor(r)]
            /\ UNCHANGED <<tag, bat, nlines, li, cont, running, cur>>
    /\ NoCall
    /\ UNCHANGED <<MsgFixed, GateVars, history, trapped,
                   move_on_next_request, in_team_preview>>

\* Line 683: send_message returns; then line 563 if the request followed a
\* "request" line, and the loop of line 552 goes on.
MsgSendDone(h) ==
    /\ running = 0
    /\ pc[h] = "send"
    /\ move_on_next_request' =
           [move_on_next_request EXCEPT ![bat[h]] =
                IF cont[h] = "clear_flag" THEN FALSE ELSE @]
    /\ IF li[h] = nlines[h]
       THEN Finish(h, "done")
       ELSE /\ pc' = [pc EXCEPT ![h] = "pass"]
            /\ running' = h
            /\ cont' = [cont EXCEPT ![h] = "none"]
            /\ message' = [message EXCEPT ![h] = "none"]
            /\ UNCHANGED <<tag, bat, nlines, li, cur>>
    /\ NoCall
    /\ UNCHANGED <<MsgFixed, GateVars, history, trapped, in_team_preview>>


\* ---------------------------------------------------------- specification
\* The attributes a new Battle starts with, and no update under way.
MsgInit ==
    /\ running = 0
    /\ cur = NoLine
    /\ nlines = [h \in Handlers |-> 0]
    /\ li = [h \in Handlers |-> 0]
    /\ cont = [h \in Handlers |-> "none"]
    /\ message = [h \in Handlers |-> "none"]
    /\ history = [b \in Handlers |-> 0]
    /\ trapped = [b \in Handlers |-> FALSE]
    /\ move_on_next_request = [b \in Handlers |-> FALSE]
    /\ in_team_preview = [b \in Handlers |-> FALSE]
    /\ requested = "none"
    /\ called = "none"
    /\ last_error = <<>>
    /\ seen_trapped = FALSE
    /\ owed = [b \in Handlers |-> FALSE]
    /\ pokemon_hp_log_dict = [a \in Actors |-> <<>>]
    /\ idx = 0
    /\ speed_list = [b \in Handlers |-> <<>>]

\* The player after __init__ (lines 133-140), no update delivered yet.
Constructed ==
    /\ battles = [t \in Tags |-> NoBattle]
    /\ finished = [b \in Handlers |-> FALSE]
    /\ qsize = 0
    /\ unfinished_tasks = 0
    /\ battle_semaphore = 0
    /\ lock_owner = NoTask
    /\ lock_waiters = <<>>
    /\ challenge_queue = <<>>
    /\ pc = [h \in Handlers |-> "idle"]
    /\ kind = [h \in Handlers |-> "none"]
    /\ tag = [h \in Handlers |-> 0]
    /\ bat = [h \in Handlers |-> NoBattle]
    /\ wpc = "login"
    /\ wi = 0
    /\ nadmit = [t \in Tags |-> 0]
    /\ nrelease = [t \in Tags |-> 0]
    /\ ncallback = [t \in Tags |-> 0]
    /\ nresets = 0
    /\ reset_result = "none"
    /\ MsgInit

Init ==
    /\ max_concurrent_battles \in 0..MaxCap
    /\ workflow \in Workflows
    /\ n_games \in 0..MaxGames
    /\ opponent \in IF workflow \in {"accept_challenges", "ladder_accept"}
                    THEN Opponents ELSE {[type |-> "none", names |-> <<>>]}
    /\ Constructed

\* A player whose caller runs no workflow loop (n_games = 0) and calls
\* reset_battles at any time.  No task ever holds the start condition's lock
\* across a suspension here, so the steps that wait for it cannot occur.
InitReset == Init /\ workflow = "send_challenges" /\ n_games = 0

NextReset ==
    \/ \E h \in Startable, k \in LineKinds, t \in 1..NTags : GetBattle(h, k, t)
    \/ \E h \in Startable, k \in InitLineKinds, t \in Tags : CreateBattle(h, k, t)
    \/ \E h \in Handlers : PutResume(h)
    \/ \E h \in Handlers : GetBattleNotified(h)
    \/ \E h \in Handlers : GetResume(h)
    \/ \E h \in Handlers : ChooseDone(h)
    \/ \E h \in Handlers : SendDone(h)
    \/ LoggedIn
    \/ ResetBattles

SpecReset == InitReset /\ [][NextReset]_vars

Next ==
    \/ \E h \in Startable, k \in LineKinds, t \in 1..NTags : GetBattle(h, k, t)
    \/ \E h \in Startable, k \in InitLineKinds, t \in Tags : CreateBattle(h, k, t)
    \/ \E h \in Handlers : PutResume(h)
    \/ \E h \in Handlers : CreateLocked(h)
    \/ \E h \in Handlers : GetBattleLocked(h)
    \/ \E h \in Handlers : GetBattleNotified(h)
    \/ \E h \in Handlers : GetBattleRelocked(h)
    \/ \E h \in Handlers : GetResume(h)
    \/ \E h \in Handlers : ChooseDone(h)
    \/ \E h \in Handlers : SendDone(h)
    \/ LoggedIn
    \/ WorkflowLocked
    \/ ChallengeTaken
    \/ CommandSent
    \/ StartNotified
    \/ WorkflowRelocked
    \/ EndNotified
    \/ SemResume
    \/ JoinReturn
    \/ \E u \in Users \cup {username}, f \in {format, "gen8ou"} : HandleChallengeRequest(u, f)

Spec == Init /\ [][Next]_vars

\* ------------------------------------ the updates of a registered battle
\* The player has logged in, its caller runs no workflow loop, and the first
\* handler has created and registered battle 1 and has returned.
GateAfterFirstInit ==
    /\ max_concurrent_battles = 1
    /\ workflow = "send_challenges"
    /\ n_games = 0
    /\ opponent = [type |-> "none", names |-> <<>>]
    /\ battles = [t \in Tags |-> IF t = 1 THEN 1 ELSE NoBattle]
    /\ finished = [b \in Handlers |-> FALSE]
    /\ qsize = 1
    /\ unfinished_tasks = 1
    /\ battle_semaphore = 1
    /\ lock_owner = NoTask
    /\ lock_waiters = <<>>
    /\ challenge_queue = <<>>
    /\ kind = [h \in Handlers |-> "none"]
    /\ wpc = "done"
    /\ wi = 0
    /\ nadmit = [t \in Tags |-> IF t = 1 THEN 1 ELSE 0]
    /\ nrelease = [t \in Tags |-> 0]
    /\ ncallback = [t \in Tags |-> 0]
    /\ nresets = 0
    /\ reset_result = "none"

InitMsg ==
    /\ GateAfterFirstInit
    /\ pc = [h \in Handlers |-> IF h = 1 THEN "done" ELSE "idle"]
    /\ tag = [h \in Handlers |-> 0]
    /\ bat = [h \in Handlers |-> NoBattle]
    /\ MsgInit

\* The lines of the updates: one text for each kind of error line.
SampleTexts ==
    {<<Inv, " Sorry, too late to make a different move">>,
     <<Unav, CantSwitch, "The active Pokemon is trapped">>,
     <<Inv, " Incomplete choice: ", " Thunderbolt ">>,
     <<Inv, " Incomplete choice: ", IsDisabled>>,
     <<Unav, " Thunderbolt ", IsDisabled>>,
     <<" Thunderbolt ">>}

\* Line 663: random.random() is drawn only in a request made with
\* maybe_default_order (the "and" stops at a false left side).
Draws(s) == IF RowEffect(ErrorRow(s), TRUE).mdo THEN BOOLEAN ELSE {FALSE}

MsgLines ==
    {[kind |-> k, text |-> <<>>, draw |-> FALSE] :
        k \in {"short", "ignored", "request_empty", "request", "win_or_tie",
               "turn", "teampreview", "bigerror", "other"}}
    \cup UNION {{[kind |-> "error", text |-> s, draw |-> d] : d \in Draws(s)} :
                 s \in SampleTexts}

\* The tasks the event loop can start while no handler is running, and the
\* task that is about to take a line of its update.
Arriving == {h \in Startable : running = 0}
Taking == {h \in Handlers : running = h /\ pc[h] = "pass" /\ cur = NoLine}

NextMsg ==
    \/ \E h \in Arriving, t \in 1..NTags, n \in 0..MaxLines, w \in 0..MaxLines,
          ok \in BOOLEAN : MsgArrive(h, t, n, w, ok)
    \/ \E h \in Taking, line \in MsgLines : MsgTake(h, line)
    \/ \E h \in Handlers : MsgProcess(h)
    \/ \E h \in Handlers, r \in Returns \ {"awaitable"} : MsgChooseDone(h, r)
    \/ \E h \in Handlers : MsgSendDone(h)

SpecMsg == InitMsg /\ [][NextMsg]_vars

\* ------------------------------------------------------ one error line
\* Every text of fewer than MaxText fragments after one of the two tags, or
\* after no tag, and every text of MaxText fragments that starts
\* "[Invalid choice] Can't move: " (the start of the branches that also test
\* what follows it and how the text ends).
RECURSIVE TextsOfLen(_)
TextsOfLen(n) ==
    IF n = 0 THEN {<<>>}
    ELSE {Append(s, f) : s \in TextsOfLen(n - 1), f \in Fragments}

Texts ==
    {<<a>> \o s : a \in {Inv, Unav, " Thunderbolt "},
                  s \in UNION {TextsOfLen(n) : n \in 0..(MaxText - 2)}}
    \cup {<<Inv, CantMove>> \o s : s \in TextsOfLen(MaxText - 2)}

\* The second handler has taken the only line of its update, an error line,
\* for battle 1, whose attributes earlier lines have set.
InitErr ==
    /\ GateAfterFirstInit
    /\ pc = [h \in Handlers |-> IF h = 1 THEN "done" ELSE IF h = 2 THEN "pass" ELSE "idle"]
    /\ tag = [h \in Handlers |-> IF h = 2 THEN 1 ELSE 0]
    /\ bat = [h \in Handlers |-> IF h = 2 THEN 1 ELSE NoBattle]
    /\ running = 2
    /\ cur \in UNION {{[kind |-> "error", text |-> s, draw |-> d] : d \in Draws(s)} :
                      s \in Texts}
    /\ nlines = [h \in Handlers |-> IF h = 2 THEN 1 ELSE 0]
    /\ li = [h \in Handlers |-> 0]
    /\ cont = [h \in Handlers |-> "none"]
    /\ message = [h \in Handlers |-> "none"]
    /\ history = [b \in Handlers |-> 0]
    /\ \E tr, mo, itp \in BOOLEAN :
           /\ trapped = [b \in Handlers |-> b = 1 /\ tr]
           /\ move_on_next_request = [b \in Handlers |-> b = 1 /\ mo]
           /\ in_team_preview = [b \in Handlers |-> b = 1 /\ itp]
    /\ requested = "none"
    /\ called = "none"
    /\ last_error = <<>>
    /\ seen_trapped = FALSE
    /\ owed = move_on_next_request
    /\ pokemon_hp_log_dict = [a \in Actors |-> <<>>]
    /\ idx = 0
    /\ speed_list = [b \in Handlers |-> <<>>]

NextErr ==
    \/ \E h \in Handlers : MsgProcess(h)
    \/ \E h \in Handlers, r \in Returns \ {"awaitable"} : MsgChooseDone(h, r)
    \/ \E h \in Handlers : MsgSendDone(h)

SpecErr == InitErr /\ [][NextErr]_vars


\* ---------------------------------------------------- the narration pass
\* The longest msg = split_messages[3:] that the narration pass walks.
MaxNarr == 2

\* HP strings as the server writes them, "num/den", "num/den status" or
\* "0 fnt" (den = 0 stands for the word "0", which holds no slash).
HPStrings ==
    {[num |-> 200, den |-> 200, status |-> ""],
     [num |-> 199, den |-> 200, status |-> ""],
     [num |-> 100, den |-> 200, status |-> "brn"],
     [num |-> 1, den |-> 200, status |-> ""],
     [num |-> 0, den |-> 0, status |-> "fnt"]}

\* s.split(" ")[0]: the HP string without its status.
FirstWord(s) == [num |-> s.num, den |-> s.den]

\* round(x) of Python for x = n / d >= 0: to the nearest integer, a tie to
\* the even one.
Round(n, d) ==
    LET q == n \div d
        r == n % d
    IN  IF 2 * r < d THEN q
        ELSE IF 2 * r > d THEN q + 1
        ELSE IF q % 2 = 0 THEN q ELSE q + 1

\* Lines 474-477 and 485-488: the percentage of an HP word.
HPFraction(w) == IF w.den = 0 THEN 0 ELSE Round(w.num * 100, w.den)

\* Variant of lines 363-366: the branch of the except clause taken always.
LoggedAfresh(log, actor, hp) == [log EXCEPT ![actor] = <<hp>>]

\* Lines 363-366, 463-466, 479-482: append to the actor's list, or create it.
Logged(log, actor, hp) == [log EXCEPT ![actor] = Append(@, hp)]

\* Variant of lines 479-494: the test for 100% comes before the append.
DamageSkipsLog(log, actor, hp) ==
    IF HPFraction(FirstWord(hp)) = 100 THEN log ELSE Logged(log, actor, hp)

\* Lines 479-482: a -damage line's HP string is logged before anything is
\* computed from it.
DamageLog(log, actor, hp) == Logged(log, actor, hp)

\* The narration lines: msg[idx][1] is the kind, msg[idx][2] the actor,
\* msg[idx][3] (msg[idx][4] for switch) the HP string; "-weather" is a kind
\* without description, "move" and "turn" have a description and no HP.
NoHP == [num |-> 0, den |-> 0, status |-> ""]

NarrLines ==
    {[kind |-> k, actor |-> a, hp |-> s] :
        k \in {"-damage", "-heal", "switch"}, a \in Actors, s \in HPStrings}
    \cup {[kind |-> "move", actor |-> a, hp |-> NoHP] : a \in Actors}
    \cup {[kind |-> k, actor |-> "p1a: Pikachu", hp |-> NoHP] : k \in {"turn", "-weather"}}

\* Lines 349-547: the number of descriptions (0 or 1) the line adds to
\* battle.battle_msg_history. A -damage line to 100% leaves the loop body at
\* line 494 with description = "".
Descriptions(line) ==
    IF line.kind = "-damage"
    THEN IF HPFraction(FirstWord(line.hp)) = 100 THEN 0 ELSE 1
    ELSE IF line.kind = "-weather" THEN 0
    ELSE 1

\* Lines 349-547: the HP log after the line.
LogAfter(line, log) ==
    IF line.kind = "-damage" THEN DamageLog(log, line.actor, line.hp)
    ELSE IF line.kind \in {"-heal", "switch"} THEN Logged(log, line.actor, line.hp)
    ELSE log

\* Lines 354-358 and 382-384: "turn" empties battle.speed_list,
\* "move" appends the actor to it.
SpeedAfter(line, sl) ==
    IF line.kind = "turn" THEN <<>>
    ELSE IF line.kind = "move" THEN Append(sl, line.actor)
    ELSE sl

\* Variant that narrates into the first registered battle whatever the tag
\* of the update.
NarratedFirst(h) == 1

\* Lines 339-340: the pass writes through the battle _get_battle returned
\* for the tag of the update.
NarratedBattle(h) == bat[h]

\* The dict followed is that of battle 1; the writes of a pass go to the
\* dict of the battle object b that _get_battle returned (line 340), and
\* each battle object has a dict of its own.
DictOf(b, log, new) == IF b = 1 THEN new ELSE log

\* Lines 345-550: one turn of the loop for a line of more than one field.
\* Both the continue of line 494 and the end of the body add 1 to idx.
NarrateLine(h, line) ==
    /\ running = h
    /\ pc[h] = "narrate"
    /\ idx < NarrationLines(nlines[h])
    /\ pokemon_hp_log_dict' = DictOf(NarratedBattle(h), pokemon_hp_log_dict,
                                     LogAfter(line, pokemon_hp_log_dict))
    /\ speed_list' = [speed_list EXCEPT ![NarratedBattle(h)] = SpeedAfter(line, @)]
    /\ history' = [history EXCEPT ![NarratedBattle(h)] = @ + Descriptions(line)]
    /\ idx' = idx + 1
    /\ NoCall
    /\ UNCHANGED <<config, battles, battle_semaphore, lock_owner, lock_waiters,
                   challenge_queue, kind, wi, nadmit, nresets, reset_result,
                   GateVars, trapped, move_on_next_request, in_team_preview,
                   li, cont, message, cur, tag, bat, nlines, pc, running>>

\* Lines 345-347 and 552: the loop ends at the end of msg, or at a line of
\* one field; the state-update pass starts without a suspension.
NarrateEnd(h, short) ==
    /\ running = h
    /\ pc[h] = "narrate"
    /\ IF short THEN idx < NarrationLines(nlines[h])
       ELSE idx = NarrationLines(nlines[h])
    /\ pc' = [pc EXCEPT ![h] = "pass"]
    /\ running' = RunningAfterNarration(h)
    /\ idx' = 0
    /\ NoCall
    /\ UNCHANGED <<config, battles, battle_semaphore, lock_owner, lock_waiters,
                   challenge_queue, kind, wi, nadmit, nresets, reset_result,
                   GateVars, trapped, move_on_next_request, in_team_preview,
                   li, cont, message, cur, tag, bat, nlines, history,
                   pokemon_hp_log_dict, speed_list>>

\* Battle 1 is registered and not in team preview; handler 2 has got it from
\* _get_battle for an update of more than three lines and starts the
\* narration pass. Each actor has no HP logged yet, or one HP string.
InitNarr ==
    /\ GateAfterFirstInit
    /\ pc = [h \in Handlers |-> IF h = 1 THEN "done" ELSE IF h = 2 THEN "narrate" ELSE "idle"]
    /\ tag = [h \in Handlers |-> IF h = 2 THEN 1 ELSE 0]
    /\ bat = [h \in Handlers |-> IF h = 2 THEN 1 ELSE NoBattle]
    /\ running = 2
    /\ cur = NoLine
    /\ \E n \in 1..MaxNarr : nlines = [h \in Handlers |-> IF h = 2 THEN n + 2 ELSE 0]
    /\ li = [h \in Handlers |-> 0]
    /\ cont = [h \in Handlers |-> "none"]
    /\ message = [h \in Handlers |-> "none"]
    /\ history = [b \in Handlers |-> 0]
    /\ trapped = [b \in Handlers |-> FALSE]
    /\ move_on_next_request = [b \in Handlers |-> FALSE]
    /\ in_team_preview = [b \in Handlers |-> FALSE]
    /\ requested = "none"
    /\ called = "none"
    /\ last_error = <<>>
    /\ seen_trapped = FALSE
    /\ owed = [b \in Handlers |-> FALSE]
    /\ pokemon_hp_log_dict \in [Actors -> {<<>>} \cup {<<s>> : s \in HPStrings}]
    /\ idx = 0
    /\ speed_list = [b \in Handlers |-> <<>>]

NextNarr ==
    \/ \E h \in Handlers, line \in NarrLines : NarrateLine(h, line)
    \/ \E h \in Handlers, short \in BOOLEAN : NarrateEnd(h, short)

SpecNarr == InitNarr /\ [][NextNarr]_vars

\* ------------------------------------------------------------------------
\* Two battles under way: updates for tags 1 and 2 handled by tasks that
\* interleave at their suspension points.

\* Tags 1 and 2 are registered (battle objects 1 and 2, created by updates
\* handled before the ones followed); the cap of two admits both.
GateTwoBattles ==
    /\ max_concurrent_battles = 2
    /\ workflow = "send_challenges"
    /\ n_games = 0
    /\ opponent = [type |-> "none", names |-> <<>>]
    /\ battles = [t \in Tags |-> IF t \in {1, 2} THEN t ELSE NoBattle]
    /\ finished = [b \in Handlers |-> FALSE]
    /\ qsize = 2
    /\ unfinished_tasks = 2
    /\ battle_semaphore = 2
    /\ lock_owner = NoTask
    /\ lock_waiters = <<>>
    /\ challenge_queue = <<>>
    /\ kind = [h \in Handlers |-> "none"]
    /\ wpc = "done"
    /\ wi = 0
    /\ nadmit = [t \in Tags |-> IF t \in {1, 2} THEN 1 ELSE 0]
    /\ nrelease = [t \in Tags |-> 0]
    /\ ncallback = [t \in Tags |-> 0]
    /\ nresets = 0
    /\ reset_result = "none"

InitFrame ==
    /\ GateTwoBattles
    /\ pc = [h \in Handlers |-> IF h = 1 THEN "done" ELSE "idle"]
    /\ tag = [h \in Handlers |-> 0]
    /\ bat = [h \in Handlers |-> NoBattle]
    /\ MsgInit

\* Lines 332-343 for an update of n lines after its header on a registered
\* battle: _get_battle returns the battle of the update's tag without
\* waiting, and the narration pass starts.
FrameArrive(h, t, n) ==
    /\ running = 0
    /\ CanArrive(h)
    /\ battles[t] # NoBattle
    /\ pc' = [pc EXCEPT ![h] = "narrate"]
    /\ tag' = [tag EXCEPT ![h] = t]
    /\ bat' = [bat EXCEPT ![h] = battles[t]]
    /\ nlines' = [nlines EXCEPT ![h] = n]
    /\ running' = h
    /\ NoCall
    /\ UNCHANGED <<MsgFixed, GateVars, li, cont, message, cur, history, trapped,
                   move_on_next_request, in_team_preview>>

\* The lines the two-battle runs narrate and handle.
FrameNarrLines ==
    {l \in NarrLines :
        /\ l.actor = "p1a: Pikachu"
        /\ \/ l.kind \in {"move", "turn"}
           \/ l.kind = "-damage" /\ l.hp.num = 1}

FrameLines ==
    {l \in MsgLines :
        \/ l.kind = "request"
        \/ l.kind = "error" /\ l.text \in {<<Unav, CantSwitch, "The active Pokemon is trapped">>,
                                            <<Unav, " Thunderbolt ", IsDisabled>>}}

NextFrame ==
    \/ \E h \in Arriving, t \in 1..NTags : FrameArrive(h, t, MaxLines)
    \/ \E h \in Handlers, line \in FrameNarrLines : NarrateLine(h, line)
    \/ \E h \in Handlers, short \in BOOLEAN : NarrateEnd(h, short)
    \/ \E h \in Taking, line \in FrameLines : MsgTake(h, line)
    \/ \E h \in Handlers : MsgProcess(h)
    \/ \E h \in Handlers, r \in Returns \ {"awaitable"} : MsgChooseDone(h, r)
    \/ \E h \in Handlers : MsgSendDone(h)

SpecFrame == InitFrame /\ [][NextFrame]_vars



\* ------------------------------------------------- the ladder, end to end
\* A ladder run in which the server starts one battle for each search it
\* has received, and ends each battle it started with one win or tie line.
InitLadder ==
    /\ max_concurrent_battles \in 1..(MaxCap + 1)
    /\ workflow = "ladder"
    /\ n_games \in 0..MaxGames
    /\ opponent = [type |-> "none", names |-> <<>>]
    /\ Constructed

\* The searches handed to search_ladder_game (line 953), the one whose call
\* has not returned yet included.
SearchesSent ==
    wi + (IF wpc \in {"search", "start_wait", "start_notified", "relock", "end_wait",
                      "end_notified", "sem_wait"} THEN 1 ELSE 0)

\* The tags for which an init update has been delivered.
Started ==
    {t \in 1..NTags :
        \/ nadmit[t] > 0
        \/ \E h \in Handlers : tag[h] = t /\ pc[h] \in {"put_wait", "lock_wait"}}

\* The init update of the battle that answers a search, followed by a line
\* of kind k.
LadderInit(h, k, t) ==
    /\ Cardinality(Started) < SearchesSent
    /\ t = Cardinality(Started) + 1
    /\ CreateBattle(h, k, t)

\* The update with the win or tie line of a registered battle that has not
\* had one.
LadderWin(h, t) ==
    /\ battles[t] # NoBattle
    /\ ~finished[battles[t]]
    /\ GetBattle(h, "win_or_tie", t)

\* The task of an update has returned; unless the battle object it created
\* is registered, nothing refers to it any more and its place serves a
\* later update.
TaskReturned(h) ==
    /\ pc[h] \in Final
    /\ \A t \in Tags : battles[t] # h
    /\ pc' = [pc EXCEPT ![h] = "idle"]
    /\ UNCHANGED <<config, msgvars, battles, finished, qsize, unfinished_tasks,
                   battle_semaphore, lock_owner, lock_waiters, challenge_queue,
                   kind, tag, bat, wpc, wi, nadmit, nrelease, ncallback, nresets,
                   reset_result>>

\* The steps of _ladder that can occur here.  It never waits for the
\* start condition's lock (a creation holds it for one step only, while
\* _ladder waits on the condition) nor for a permit (the registration that
\* wakes it has released one).
LadderWorkflow ==
    \/ LoggedIn
    \/ CommandSent
    \/ StartNotified
    \/ EndNotified
    \/ JoinReturn

\* No creation waits in put() here: a search is sent only after the gate
\* was found with room, and only its own battle is admitted after it.
NextLadder ==
    \/ \E h \in Handlers, k \in {"other", "turn"}, t \in 1..NTags : LadderInit(h, k, t)
    \/ \E h \in Handlers, t \in 1..NTags : LadderWin(h, t)
    \/ \E h \in Handlers : TaskReturned(h)
    \/ \E h \in Handlers : CreateLocked(h)
    \/ \E h \in Handlers : ChooseDone(h)
    \/ \E h \in Handlers : SendDone(h)
    \/ LadderWorkflow

\* The event loop runs every task that is ready; the server answers every
\* search and ends every battle.
FairLadder ==
    /\ WF_vars(LadderWorkflow)
    /\ WF_vars(\E h \in Handlers :
                  CreateLocked(h) \/ ChooseDone(h) \/ SendDone(h) \/ TaskReturned(h))
    /\ WF_vars(\E h \in Handlers, k \in {"other", "turn"}, t \in 1..NTags :
                  LadderInit(h, k, t))
    /\ \A t \in 1..NTags : WF_vars(\E h \in Handlers : LadderWin(h, t))

SpecLadder == InitLadder /\ [][NextLadder]_vars /\ FairLadder



\* ------------------------------------------------------ accepting challenges
\* accept_challenges on a player without a limit on concurrent battles:
\* challenges arrive one by one and in lists, a battle starts at any time
\* and ends with the update that starts it or with a later one.
InitAccept ==
    /\ max_concurrent_battles = 0
    /\ workflow = "accept_challenges"
    /\ n_games \in 0..MaxGames
    /\ opponent \in Opponents
    /\ Constructed

NextAccept ==
    \/ LoggedIn
    \/ ChallengeTaken
    \/ CommandSent
    \/ SemResume
    \/ JoinReturn
    \/ \E u \in Users \cup {username}, f \in {format, "gen8ou"} : HandleChallengeRequest(u, f)
    \/ \E cs \in ChallengesFrom : UpdateChallenges(cs)
    \/ \E h \in Handlers, k \in {"other", "win_or_tie"}, t \in 1..NTags : CreateBattle(h, k, t)
    \/ \E h \in Handlers, t \in 1..NTags :
          battles[t] # NoBattle /\ GetBattle(h, "win_or_tie", t)
    \/ \E h \in Handlers : GetResume(h)

SpecAccept == InitAccept /\ [][NextAccept]_vars


\* ------------------------------------------------------------- properties
Registered == {t \in Tags : battles[t] # NoBattle}
InCycle(h) == pc[h] \in {"choose", "send"}

\* C1: whenever max_concurrent_battles > 0, the size of the battle-count
\* queue (the number of admitted battles) is at most max_concurrent_battles,
\* in every reachable state.
C1_GateWithinCapacity ==
    max_concurrent_battles > 0 => qsize <= max_concurrent_battles

\* The gate is full, a creation waits for room, and a slot has already been
\* given back once.
C1_Witness ==
    /\ max_concurrent_battles > 0
    /\ qsize = max_concurrent_battles
    /\ \E h \in Handlers : pc[h] = "put_wait"
    /\ \E t \in Tags : nrelease[t] > 0

\* C2: concurrent _create_battle calls for one tag write the tag into the
\* registry exactly once, and every caller that has its battle holds the
\* object the registry holds under that tag.
C2_OneRegistrationPerTag ==
    /\ \A t \in Tags : nadmit[t] <= 1
    /\ \A h \in Handlers :
           pc[h] \in {"choose", "send", "get_wait"} => bat[h] = battles[tag[h]]

\* C3: with max_concurrent_battles = 1 and two battles, the step that
\* registers the second battle happens only when the first battle is
\* finished and its win or tie line has given the gate slot back.
C3_SecondWaitsForFirst ==
    [][\A t \in Tags :
          (/\ max_concurrent_battles = 1
           /\ battles[t] = NoBattle
           /\ battles'[t] # NoBattle
           /\ Cardinality(Registered) = 1)
          => \E u \in Registered : finished[battles[u]] /\ nrelease[u] >= 1]_vars

\* Two battles are registered under a capacity of 1 and the second one is
\* still running.
C3_Witness ==
    /\ max_concurrent_battles = 1
    /\ Cardinality(Registered) = 2
    /\ \E u \in Registered : ~finished[battles[u]]
    /\ \E u \in Registered : finished[battles[u]] /\ nrelease[u] >= 1

\* C4: a caller of _get_battle waits on the start condition only while its
\* tag is not registered: no registration leaves a caller that found the
\* tag absent still waiting for a notification.
C4_NoMissedRegistration ==
    \A h \in Handlers : pc[h] = "gb_wait" => battles[tag[h]] = NoBattle

\* C5: for every battle the gate count is incremented exactly once, at its
\* creation, and decremented at most once, by its first win or tie line.
C5_AdmittedOnceReleasedOnce ==
    \A t \in Tags : nadmit[t] <= 1 /\ nrelease[t] <= 1

\* C6: a _create_battle that resumes from put() and finds its tag registered
\* leaves the queue size and the registry as they were and goes on with the
\* registered battle.  (An update whose line is win or tie is left out: its
\* line releases a slot in the same step.)
C6_LostRaceGivesSlotBack ==
    [][\A h \in Handlers :
          (/\ pc[h] = "put_wait"
           /\ pc'[h] # "put_wait"
           /\ battles[tag[h]] # NoBattle
           /\ kind[h] # "win_or_tie")
          => /\ qsize' = qsize
             /\ battles' = battles
             /\ nadmit' = nadmit
             /\ bat'[h] \in {NoBattle, battles[tag[h]]}]_vars

\* A creation has lost the race: one more put() than task_done() and get()
\* together account for.
C6_Witness ==
    /\ unfinished_tasks > qsize
    /\ \A t \in Tags : nadmit[t] <= 1

\* C7: a workflow blocked in _battle_count_queue.join() is blocked only
\* while the admitted count is above zero.
C7_JoinReleasedAtZero ==
    wpc = "join_wait" => qsize > 0

\* C8: at the step in which the workflow returns, the admitted count is zero
\* and every registered battle is finished.
C8_ReturnsAfterAllFinished ==
    [][(wpc # "done" /\ wpc' = "done")
       => /\ qsize' = 0
          /\ \A t \in Tags :
                 battles'[t] # NoBattle => finished'[battles'[t]]]_vars

\* C9: no two handlers are inside _handle_battle_request for the same battle
\* at the same time.
C9_OneCyclePerBattle ==
    \A h1, h2 \in Handlers :
        (h1 # h2 /\ InCycle(h1) /\ InCycle(h2)) => bat[h1] # bat[h2]

\* C10: a call of reset_battles raises and leaves the registry as it was
\* if a registered battle is not finished; otherwise it empties the registry.
C10_ResetAllOrNothing ==
    [][nresets' # nresets
       => IF \E t \in Tags : battles[t] # NoBattle /\ ~finished[battles[t]]
          THEN reset_result' = "raised" /\ battles' = battles
          ELSE reset_result' = "cleared" /\ battles' = [t \in Tags |-> NoBattle]]_vars

\* reset_battles has raised on a registry that holds a finished battle and
\* a running one.
C10_Witness ==
    /\ reset_result = "raised"
    /\ \E t \in Registered : finished[battles[t]]
    /\ \E t \in Registered : ~finished[battles[t]]

\* C11: a _create_battle for a room whose format field differs from the
\* player's format raises, and the step changes neither the registry, the
\* gate, the semaphore nor the position of any other task.
C11_WrongFormatRejected ==
    [][\A h \in Handlers, k \in InitLineKinds :
          CreateBattle(h, k, 0)
          => /\ pc'[h] = "raised"
             /\ battles' = battles
             /\ qsize' = qsize
             /\ unfinished_tasks' = unfinished_tasks
             /\ battle_semaphore' = battle_semaphore
             /\ wpc' = wpc
             /\ \A g \in Handlers \ {h} : pc'[g] = pc[g]]_vars

\* A creation has been refused while a _get_battle caller and the ladder
\* workflow wait on the start condition.
C11_Witness ==
    /\ \E h \in Handlers : pc[h] = "raised"
    /\ \E h \in Handlers : pc[h] = "gb_wait"
    /\ wpc = "start_wait"
    /\ battles[0] = NoBattle

\* The running handler is about to process the line it has taken.
Processing(h) == running = h /\ cur # NoLine

\* The line's processing leaves the handler in the loop over the lines or
\* at its end, with no command to send.
NoCommand(h) == pc'[h] \in {"pass", "done"} /\ message'[h] = "none"

\* C12: a decision request for a battle in team preview that does not
\* originate from a teampreview message sends no command, invokes neither
\* choose_move nor teampreview, and changes no state.
C12_PreviewRequestDoesNothing ==
    [][\A h \in Handlers :
          (/\ Processing(h)
           /\ requested' # "none"
           /\ cur.kind # "teampreview"
           /\ in_team_preview'[bat[h]])
          => /\ NoCommand(h)
             /\ called' = "none"]_vars

\* C12, amended: the same, for a request on which the default order is not
\* drawn (maybe_default_order unset, or the draw not under
\* DEFAULT_CHOICE_CHANCE).
C12_PreviewRequestWithoutDrawDoesNothing ==
    [][\A h \in Handlers :
          (/\ Processing(h)
           /\ requested' # "none"
           /\ cur.kind # "teampreview"
           /\ in_team_preview'[bat[h]]
           /\ ~(requested' = "maybe_default_order" /\ cur.draw))
          => /\ NoCommand(h)
             /\ called' = "none"]_vars

\* A request has just returned early for a battle in team preview: the
\* handler is still running, in its loop over the lines.
C12_Witness ==
    \E h \in Handlers :
        /\ running = h
        /\ pc[h] = "pass"
        /\ in_team_preview[bat[h]]
        /\ requested # "none"
        /\ called = "none"

\* C13: when maybe_default_order is set and the random draw is under
\* DEFAULT_CHOICE_CHANCE, the command to send is the default order's
\* message and neither callback is invoked; the outcome is the same
\* whatever the battle's phase and whatever choose_move would return.
C13_DefaultOrderDrawn ==
    [][\A h \in Handlers :
          (/\ Processing(h)
           /\ requested' = "maybe_default_order"
           /\ cur.draw)
          => /\ pc'[h] = "send"
             /\ message'[h] = "default"
             /\ called' = "none"
             /\ \A itp, ftp \in BOOLEAN, cm \in Returns :
                    handle_battle_request(itp, ftp, TRUE, TRUE, cm)
                    = [called |-> "none", message |-> "default", next |-> "send"]]_vars

\* The default order is on its way for a battle in team preview, and no
\* callback was called.
C13_Witness ==
    \E h \in Handlers :
        /\ pc[h] = "send"
        /\ message[h] = "default"
        /\ requested = "maybe_default_order"
        /\ called = "none"
        /\ in_team_preview[bat[h]]

\* The patterns of the rows of the error table (lines 578-638), as the claims
\* about it name them.
MatchesRowBeforeIncomplete(s) ==
    \/ StartsWith(s, <<Inv, " Sorry, too late to make a different move">>)
    \/ StartsWith(s, <<Unav, CantSwitch, "The active Pokemon is trapped">>)
    \/ StartsWith(s, <<Inv, CantSwitch, "The active Pokemon is trapped">>)
    \/ StartsWith(s, <<Inv, CantSwitch, "You can't switch to an active Pokemon">>)
    \/ StartsWith(s, <<Inv, CantSwitch, "You can't switch to a fainted Pokemon">>)
    \/ StartsWith(s, <<Inv, CantMove, "Invalid target for">>)
    \/ StartsWith(s, <<Inv, CantMove, "You can't choose a target for">>)
    \/ StartsWith(s, <<Inv, CantMove>>) /\ EndsWith(s, <<"needs a target">>)
    \/ /\ StartsWith(s, <<Inv, CantMove, "Your">>)
       /\ Contains(s, <<" doesn't have a move matching ">>)

MatchesDisabled(s) ==
    /\ StartsWith(s, <<Unav>>) \/ StartsWith(s, <<Inv>>)
    /\ EndsWith(s, <<IsDisabled>>)

MatchesRowAfterDisabled(s) ==
    \/ StartsWith(s, <<Inv, CantMove, "You sent more choices than unfainted Pokemon.">>)
    \/ StartsWith(s, <<Inv, CantMove>>) /\ EndsWith(s, <<"can't Terastallize.">>)

\* C14: every error line whose text starts with
\* "[Invalid choice] Incomplete choice: " triggers exactly one decision
\* request, with maybe_default_order set, whatever the rest of the text,
\* and sets neither trapped nor move_on_next_request.
C14_IncompleteChoiceRetries ==
    [][\A h \in Handlers :
          (/\ Processing(h)
           /\ cur.kind = "error"
           /\ StartsWith(cur.text, <<Inv, " Incomplete choice: ">>))
          => /\ requested' = "maybe_default_order"
             /\ trapped' = trapped
             /\ move_on_next_request' = move_on_next_request]_vars

\* The text went on after the prefix, and ended with "is disabled": the
\* request was made and move_on_next_request is not set.
C14_Witness ==
    /\ StartsWith(last_error, <<Inv, " Incomplete choice: ">>)
    /\ EndsWith(last_error, <<IsDisabled>>)
    /\ Len(last_error) > 2
    /\ requested = "maybe_default_order"
    /\ ~move_on_next_request[1]
    /\ ~trapped[1]

\* C15: an error line whose text starts with "[Unavailable choice]" or
\* "[Invalid choice]" and ends with "is disabled", and matches no earlier
\* row, sets move_on_next_request, triggers no decision request and sends
\* no command.
C15_DisabledSetsMoveOnNextRequest ==
    [][\A h \in Handlers :
          (/\ Processing(h)
           /\ cur.kind = "error"
           /\ MatchesDisabled(cur.text)
           /\ ~MatchesRowBeforeIncomplete(cur.text)
           /\ ~StartsWith(cur.text, <<Inv, " Incomplete choice: ">>))
          => /\ move_on_next_request'[bat[h]]
             /\ requested' = "none"
             /\ called' = "none"
             /\ NoCommand(h)]_vars

\* The "[Invalid choice] ... is disabled" line of a move has been processed.
C15_Witness ==
    /\ StartsWith(last_error, <<Inv, CantMove>>)
    /\ EndsWith(last_error, <<IsDisabled>>)
    /\ move_on_next_request[1]
    /\ requested = "none"
    /\ pc[2] = "done"

\* C16: an error line whose text matches none of the patterns triggers no
\* decision request, sends no command, and leaves trapped and
\* move_on_next_request unchanged.
C16_UnknownErrorOnlyLogged ==
    [][\A h \in Handlers :
          (/\ Processing(h)
           /\ cur.kind = "error"
           /\ ~MatchesRowBeforeIncomplete(cur.text)
           /\ ~StartsWith(cur.text, <<Inv, " Incomplete choice: ">>)
           /\ ~MatchesDisabled(cur.text)
           /\ ~MatchesRowAfterDisabled(cur.text))
          => /\ requested' = "none"
             /\ called' = "none"
             /\ NoCommand(h)
             /\ trapped' = trapped
             /\ move_on_next_request' = move_on_next_request]_vars

\* An "[Invalid choice]" line that no row matches has been processed for a
\* battle with both attributes set; they are still set.
C16_Witness ==
    /\ StartsWith(last_error, <<Inv, CantMove>>)
    /\ Len(last_error) > 2
    /\ ~MatchesRowBeforeIncomplete(last_error)
    /\ ~MatchesDisabled(last_error)
    /\ ~MatchesRowAfterDisabled(last_error)
    /\ requested = "none"
    /\ trapped[1]
    /\ move_on_next_request[1]
    /\ pc[2] = "done"

\* C17: if choose_move raises, the decision cycle still sends the default
\* command: no step that calls choose_move, or in which the awaited
\* choose_move completes, ends the handler with the exception.
C17_ChooseMoveErrorGivesDefault ==
    [][\A h \in Handlers :
          (\/ Processing(h) /\ called' = "choose_move"
           \/ pc[h] = "choose")
          => pc'[h] # "raised"]_vars

\* C18 (as claimed): a message handler never waits for gate capacity in
\* put() nor for a gate entry in get().
C18_NeverBlocksOnGate ==
    \A h \in Handlers : pc[h] \notin {"put_wait", "get_wait"}

\* C18 (amended): a handler waits in put() exactly when it takes an init
\* message for an unregistered tag of its format while the cap is positive
\* and the queue is full, and it starts to wait in get() only on a win or tie
\* line that finds the queue empty.
C18_BlocksOnGateOnlyWhenFullOrEmpty ==
    [][\A h \in Handlers :
          /\ \A k \in InitLineKinds, t \in 1..NTags :
                 (CreateBattle(h, k, t) /\ battles[t] = NoBattle)
                 => (pc'[h] = "put_wait"
                     <=> (max_concurrent_battles > 0
                          /\ qsize >= max_concurrent_battles))
          /\ (pc[h] # "put_wait" /\ pc'[h] = "put_wait")
             => /\ pc[h] = "idle"
                /\ battles[tag'[h]] = NoBattle
                /\ max_concurrent_battles > 0
                /\ qsize >= max_concurrent_battles
          /\ (pc[h] # "get_wait" /\ pc'[h] = "get_wait")
             => kind'[h] = "win_or_tie" /\ qsize' = 0]_vars

\* A creation waits in put() on a full gate while another handler is inside
\* a decision cycle.
C18_Witness ==
    /\ max_concurrent_battles > 0
    /\ qsize = max_concurrent_battles
    /\ \E h \in Handlers : pc[h] = "put_wait"
    /\ \E h \in Handlers : InCycle(h)

\* C19: whenever a caller blocked on the gate resumes (a creation waiting in
\* put(), a workflow notified on the end condition, a workflow woken in
\* join()), every slot given back so far belongs to a battle whose outcome
\* is resolved and whose _battle_finished_callback has returned.
C19_ResumeAfterCallback ==
    [][(\/ \E h \in Handlers : pc[h] = "put_wait" /\ pc'[h] # "put_wait"
        \/ wpc \in {"end_notified", "join_woken"} /\ wpc' # wpc)
       => \A t \in Tags :
              /\ ncallback[t] = nrelease[t]
              /\ (nrelease[t] > 0 /\ nadmit[t] = 1) => finished[battles[t]]]_vars

\* A creation that waited for a slot has registered its battle after a win
\* or tie line gave the slot back.
C19_Witness ==
    /\ max_concurrent_battles = 1
    /\ Cardinality(Registered) = 2
    /\ \E t \in Tags : nrelease[t] = 1 /\ ncallback[t] = 1

\* C20: for one grouped update, every write of the narration pass happens
\* before the first action of the state-update pass, and no other handler
\* runs between the two passes: a handler that has not processed a line yet
\* is the running one, only the run in which an update arrives writes to
\* battle_msg_history, and that run processes no line.
C20_NarrationBeforeStatePass ==
    /\ [](\A h \in Handlers : (pc[h] = "pass" /\ li[h] = 0) => running = h)
    /\ [][history' # history
          => /\ cur = NoLine /\ cur' = NoLine
             /\ \E h \in Handlers :
                    /\ pc[h] = "idle" /\ pc'[h] # "idle"
                    /\ li'[h] = 0]_vars

\* A handler has narrated its update and taken its first line while another
\* handler of the same battle is suspended in a decision cycle.
C20_Witness ==
    \E h, g \in Handlers :
        /\ pc[h] = "pass" /\ li[h] = 0 /\ cur # NoLine
        /\ history[bat[h]] > 0
        /\ g # h /\ bat[g] = bat[h] /\ pc[g] \in {"choose", "send"}

\* C21: a -damage line whose resulting HP is 100% (the full HP, or an HP
\* that rounds to 100%) appends nothing to battle_msg_history, still appends
\* the line's HP string to pokemon_hp_log_dict for the line's actor and to no
\* other, and the narration pass continues with the next line.
C21_FullHPDamageIsSilent ==
    [][\A h \in Handlers, line \in NarrLines :
          (/\ NarrateLine(h, line)
           /\ line.kind = "-damage"
           /\ HPFraction(FirstWord(line.hp)) = 100)
          => /\ history' = history
             /\ pokemon_hp_log_dict'
                = [pokemon_hp_log_dict EXCEPT
                      ![line.actor] = Append(@, line.hp)]
             /\ idx' = idx + 1
             /\ pc'[h] = "narrate"
             /\ running' = h]_vars

\* The first line of a pass of two was a -damage line to 200/200 for an
\* actor that had an HP logged: the HP is logged, nothing was narrated and
\* the pass is at its second line.
C21_Witness ==
    /\ pc[2] = "narrate"
    /\ idx = 1
    /\ NarrationLines(nlines[2]) = 2
    /\ history[1] = 0
    /\ \E a \in Actors :
          /\ Len(pokemon_hp_log_dict[a]) = 2
          /\ pokemon_hp_log_dict[a][2] = [num |-> 200, den |-> 200, status |-> ""]


\* The registered battles that are not finished.
Running == {t \in Tags : battles[t] # NoBattle /\ ~finished[battles[t]]}

\* C22: with max_concurrent_battles = 0 the gate is unbounded: no battle
\* creation ever waits for a slot, and the ladder loops never wait on the
\* end condition.
C22_UnboundedGateNeverWaits ==
    max_concurrent_battles = 0
    => /\ \A h \in Handlers : pc[h] # "put_wait"
       /\ wpc \notin {"end_wait", "end_notified"}

\* Two battles are registered and running, and the ladder loop has gone
\* past lines 955-957 at least once.
C22_Witness ==
    /\ max_concurrent_battles = 0
    /\ workflow \in {"ladder", "ladder_accept"}
    /\ wi >= 1
    /\ qsize = 2
    /\ Cardinality(Running) = 2

TooLateText == <<Inv, " Sorry, too late to make a different move">>

\* C24: an error line starting with "[Invalid choice] Sorry, too late to
\* make a different move" triggers one decision request without
\* maybe_default_order if the battle's trapped flag is true, and triggers no
\* decision request and no state change if it is false.
C24_TooLateRetriesOnlyIfTrapped ==
    [][\A h \in Handlers :
          (/\ Processing(h)
           /\ cur.kind = "error"
           /\ StartsWith(cur.text, TooLateText))
          => IF trapped[bat[h]]
             THEN requested' = "plain"
             ELSE /\ requested' = "none"
                  /\ called' = "none"
                  /\ NoCommand(h)
                  /\ trapped' = trapped
                  /\ move_on_next_request' = move_on_next_request
                  /\ in_team_preview' = in_team_preview]_vars

\* The line has been processed for a trapped battle, with more text after
\* the prefix: the request was made and choose_move called.
C24_Witness ==
    /\ StartsWith(last_error, TooLateText)
    /\ Len(last_error) > 2
    /\ trapped[1]
    /\ requested = "plain"
    /\ called = "choose_move"

TrappedTexts ==
    {<<Unav, CantSwitch, "The active Pokemon is trapped">>,
     <<Inv, CantSwitch, "The active Pokemon is trapped">>}

\* C25: an error line reporting that the active Pokemon is trapped (either
\* variant) sets the battle's trapped flag before the retried decision
\* request is made, and the retry is made without maybe_default_order, so
\* that the decision callback observes trapped = true.
C25_TrappedSetBeforeRetry ==
    [][\A h \in Handlers :
          (/\ Processing(h)
           /\ cur.kind = "error"
           /\ \E p \in TrappedTexts : StartsWith(cur.text, p))
          => /\ trapped'[bat[h]]
             /\ requested' = "plain"
             /\ called' # "none" => seen_trapped']_vars

\* The "[Unavailable choice]" variant has been processed and choose_move was
\* called with the flag set.
C25_Witness ==
    /\ StartsWith(last_error, <<Unav, CantSwitch, "The active Pokemon is trapped">>)
    /\ requested = "plain"
    /\ called = "choose_move"
    /\ seen_trapped
    /\ trapped[1]

\* C26: after error recovery has set trapped or move_on_next_request on a
\* battle, the next decision cycle of that battle that sends a command
\* leaves both flags false: when the command of the cycle that follows an
\* error line has been sent, and the flags were set by that line (trapped)
\* or by an earlier one (move_on_next_request), both are false.
C26_FlagsClearedByNextCycle ==
    [][\A h \in Handlers :
          (/\ pc[h] = "send" /\ pc'[h] # "send"
           /\ \/ move_on_next_request[bat[h]]
              \/ \E p \in TrappedTexts : StartsWith(last_error, p))
          => /\ ~trapped'[bat[h]]
             /\ ~move_on_next_request'[bat[h]]]_vars

\* The decision request made for the line is over: it has returned, or an
\* exception has left it.
RequestOver(h) == pc'[h] \notin {"send", "choose"}

\* C27: a request line with a nonempty payload is decoded into the battle
\* and, if move_on_next_request is then true, triggers exactly one decision
\* request after which the flag is false; if the flag is false no decision
\* request is made; a request line with an empty payload causes no parse,
\* no decision request and no flag change.
C27_RequestLine ==
    [][\A h \in Handlers :
          /\ (Processing(h) /\ cur.kind = "request")
             => IF move_on_next_request[bat[h]]
                THEN /\ requested' = "plain"
                     /\ RequestOver(h) => ~move_on_next_request'[bat[h]]
                ELSE /\ requested' = "none"
                     /\ move_on_next_request' = move_on_next_request
          /\ (pc[h] \in {"send", "choose"} /\ cont[h] = "clear_flag" /\ RequestOver(h))
             => ~move_on_next_request'[bat[h]]
          /\ (Processing(h) /\ cur.kind = "request_empty")
             => /\ requested' = "none"
                /\ trapped' = trapped
                /\ in_team_preview' = in_team_preview
                /\ move_on_next_request' = move_on_next_request]_vars

\* C28: every "is disabled" error that sets move_on_next_request is followed
\* by a decision cycle at the next nonempty request line of that battle,
\* under every interleaving of the handlers of the battle.
C28_DisabledErrorGetsItsCycle ==
    [][\A h \in Handlers :
          (Processing(h) /\ cur.kind = "request" /\ owed[bat[h]])
          => requested' # "none"]_vars

\* C29: when the battle is not in team preview and the forced default is
\* not taken, the decision cycle invokes choose_move (awaiting it if it is
\* awaitable) and, if the result is None, sends the default command;
\* otherwise it sends the message of the returned order.
C29_ChooseMoveResultSent ==
    [][\A h \in Handlers :
          /\ (/\ Processing(h)
              /\ requested' # "none"
              /\ ~in_team_preview'[bat[h]]
              /\ ~(requested' = "maybe_default_order" /\ cur.draw))
             => /\ called' = "choose_move"
                /\ pc'[h] \in {"send", "choose", "raised"}
                /\ pc'[h] = "send" => message'[h] \in {"default", "order"}
          /\ \A r \in {"none", "order"} :
                /\ MsgChooseDone(h, r)
                   => /\ pc'[h] = "send"
                      /\ message'[h] = (IF r = "none" THEN "default" ELSE "order")
                /\ \A ftp, mdo \in BOOLEAN :
                      handle_battle_request(FALSE, ftp, mdo, FALSE, r)
                      = [called |-> "choose_move",
                         message |-> IF r = "none" THEN "default" ELSE "order",
                         next |-> "send"]]_vars

\* choose_move has been called and gave None: the default command is on its
\* way.
C29_Witness ==
    \E h \in Handlers :
        /\ pc[h] = "send"
        /\ message[h] = "default"
        /\ called = "choose_move"
        /\ ~in_team_preview[bat[h]]

\* C30: every decision cycle other than the ignored team-preview trigger
\* sends exactly one command, addressed to the battle tag of the battle the
\* cycle was started for: a request that is not ignored leaves the handler
\* waiting for choose_move or for send_message, the awaited choose_move is
\* followed by send_message, and the tag sent with the command is the one
\* under which the cycle's battle is registered.
C30_OneCommandPerCycle ==
    [][\A h \in Handlers :
          /\ (/\ Processing(h)
              /\ requested' # "none"
              /\ ~(/\ in_team_preview'[bat[h]]
                   /\ cur.kind # "teampreview"
                   /\ ~(requested' = "maybe_default_order" /\ cur.draw)))
             => pc'[h] \in {"send", "choose"}
          /\ (pc[h] = "choose" /\ pc'[h] # "choose") => pc'[h] = "send"
          /\ (pc[h] = "send" /\ pc'[h] # "send") => battles[tag[h]] = bat[h]]_vars

\* The ladder workflow is at the test of lines 955 / 1029 and can run.
AtGateTest ==
    \/ wpc = "start_notified" /\ lock_owner = NoTask
    \/ wpc = "relock" /\ lock_owner = WF
    \/ wpc = "end_notified"

\* The command of an iteration after the first starts to be sent.
NextCommand ==
    /\ wi' >= 1
    /\ wpc \notin {"search", "accept_send"}
    /\ wpc' \in {"search", "accept_send"}

\* C31 as stated: in the ladder loops the next matchmaking search or
\* challenge acceptance is sent only when the admitted count is below
\* max_concurrent_battles (max_concurrent_battles > 0).
C31_NextCommandBelowCapacity ==
    [][(/\ max_concurrent_battles > 0
        /\ workflow \in {"ladder", "ladder_accept"}
        /\ NextCommand)
       => qsize' < max_concurrent_battles]_vars

\* C31, amended: after a session-start notification the ladder loops test
\* the gate once per wake-up and go on to the permit, and from there to the
\* next iteration, only if the admitted count is below
\* max_concurrent_battles at that test; while the gate is full they wait on
\* the end condition.  The count is not looked at again when the next
\* command is sent.
C31_ProceedsOnlyBelowCapacity ==
    [][(/\ max_concurrent_battles > 0
        /\ AtGateTest
        /\ wpc' # wpc)
       => IF qsize < max_concurrent_battles
          THEN wpc' # "end_wait"
          ELSE wpc' = "end_wait" /\ wi' = wi /\ battle_semaphore' = battle_semaphore]_vars

\* The loop has waited on the end condition with the gate full and has been
\* woken by the end of the battle: the gate has room and it will proceed.
C31_Witness ==
    /\ max_concurrent_battles > 0
    /\ workflow \in {"ladder", "ladder_accept"}
    /\ wpc = "end_notified"
    /\ qsize < max_concurrent_battles
    /\ \E t \in Tags : nrelease[t] > 0

RECURSIVE SumUpTo(_, _)
SumUpTo(f, n) == IF n < 0 THEN 0 ELSE f[n] + SumUpTo(f, n - 1)
Registrations == SumUpTo(nadmit, NTags)

\* C33: each battle registration releases exactly one session-start permit
\* and each workflow iteration consumes exactly one: the permits left are
\* the registrations minus the completed iterations and never negative, so
\* _send_challenges sends its (k+1)-th challenge, and _accept_challenges
\* accepts its (k+1)-th challenge, only after at least k registrations.
C33_OnePermitPerRegistration ==
    /\ battle_semaphore >= 0
    /\ battle_semaphore + wi = Registrations
    /\ wpc \in {"challenge_send", "accept_send"} => Registrations >= wi

\* _send_challenges is sending its second challenge: one battle has been
\* registered and its permit consumed.
C33_Witness ==
    /\ workflow = "send_challenges"
    /\ wpc = "challenge_send"
    /\ wi = 1
    /\ Registrations = 1
    /\ battle_semaphore = 0

\* The names the call accepts, opponent and challenger in normal form.
Allowed(u) ==
    \/ opponent.type = "none"
    \/ to_id_str(u) \in {to_id_str(opponent.names[i]) : i \in 1..Len(opponent.names)}

\* An accept command starts to be sent.
NewAccept == wpc' = "accept_send" /\ (wpc # "accept_send" \/ wi' # wi)

\* C34: _accept_challenges(opponent, n) sends exactly n accept commands
\* before waiting for the battles to end (one in each of its n iterations);
\* each accepted challenger is the first on the challenge queue that, after
\* name normalisation, equals opponent, is in opponent, or is anyone when
\* opponent is None; the challengers dequeued before it are discarded
\* without an accept command, the ones behind it stay queued in order.
C34_AcceptsInOrder ==
    [][/\ NewAccept
          => /\ wi' < n_games
             /\ wi' = wi + 1 \/ wpc \in {"login", "chq_wait"}
             /\ \E i \in 1..Len(challenge_queue) :
                   /\ Allowed(challenge_queue[i])
                   /\ \A j \in 1..(i - 1) : ~Allowed(challenge_queue[j])
                   /\ challenge_queue'
                      = SubSeq(challenge_queue, i + 1, Len(challenge_queue))
       /\ (wpc' = "chq_wait" /\ (wpc # "chq_wait" \/ wi' # wi))
          => /\ \A j \in 1..Len(challenge_queue) : ~Allowed(challenge_queue[j])
             /\ challenge_queue' = <<>>
       /\ wi' # wi
          => /\ wi' = wi + 1
             /\ wpc \in {"accept_send", "sem_wait"}
       /\ wpc' \in {"join_wait", "join_woken", "done"} => wi' = n_games]_vars

\* The second accept command goes to "Opp", taken from the queue ahead of a
\* challenger that stays queued.
C34_Witness ==
    /\ workflow = "accept_challenges"
    /\ opponent.type = "str"
    /\ wpc = "accept_send"
    /\ wi = 1
    /\ challenge_queue = <<"other">>

\* C35: both _handle_challenge_request and _update_challenges enqueue a
\* challenger only on a format match, in arrival order, and leave the queue
\* unchanged otherwise, so the challenge queue only ever receives
\* challengers whose offered format is the player's.
C35_OnlyMatchingFormatQueued ==
    [][/\ \A u \in Users \cup {username}, f \in {format, "gen8ou"} :
             HandleChallengeRequest(u, f)
             => IF f = format /\ u # username
                THEN challenge_queue' = Append(challenge_queue, u)
                ELSE challenge_queue' = challenge_queue
       /\ \A cs \in ChallengesFrom :
             UpdateChallenges(cs)
             => challenge_queue'
                = challenge_queue \o [i \in 1..Len(SelectSeq(cs, LAMBDA o : o[2] = format))
                                        |-> SelectSeq(cs, LAMBDA o : o[2] = format)[i][1]]]_vars

\* Two challengers are queued in the order of their arrival while
\* _accept_challenges is about to take the first.
C35_Witness ==
    /\ Len(challenge_queue) = 2
    /\ challenge_queue[1] # challenge_queue[2]
    /\ wpc = "chq_wait"

IsPrefix(s, t) == Len(s) <= Len(t) /\ SubSeq(t, 1, Len(s)) = s

\* C36: for every battle, battle_msg_history is append-only (it changes
\* only by the writes of line 547, each of which extends it) and every
\* per-actor list of pokemon_hp_log_dict only grows by appending; no line
\* handled by the narration pass shortens or rewrites either.
C36_LogsAppendOnly ==
    [][/\ \A a \in Actors :
             IsPrefix(pokemon_hp_log_dict[a], pokemon_hp_log_dict'[a])
       /\ \A b \in Handlers : history'[b] >= history[b]]_vars

\* A pass of two lines has logged two more HP strings for an actor that had
\* one, and narrated both lines.
C36_Witness ==
    /\ pc[2] = "pass"
    /\ history[1] = 2
    /\ \E a \in Actors : Len(pokemon_hp_log_dict[a]) = 3

\* The fields of every battle other than b are as they were.
OthersKept(b) ==
    /\ \A o \in Handlers \ {b} :
          /\ history'[o] = history[o]
          /\ speed_list'[o] = speed_list[o]
          /\ trapped'[o] = trapped[o]
          /\ move_on_next_request'[o] = move_on_next_request[o]
    /\ b # 1 => pokemon_hp_log_dict' = pokemon_hp_log_dict

\* C37: every step of the handling of a grouped update for battle A (its
\* narration pass, its state-update pass, its resumptions after choose_move
\* and after the send) leaves battle_msg_history, pokemon_hp_log_dict,
\* speed_list, trapped and move_on_next_request of every other registered
\* battle B unchanged, however the handlers for A and B interleave.
C37_OtherBattlesUntouched ==
    [][\A h \in Handlers :
          (\/ \E t \in 1..NTags : FrameArrive(h, t, MaxLines)
           \/ \E line \in FrameNarrLines : NarrateLine(h, line)
           \/ \E short \in BOOLEAN : NarrateEnd(h, short)
           \/ \E line \in FrameLines : MsgTake(h, line)
           \/ MsgProcess(h)
           \/ \E r \in Returns \ {"awaitable"} : MsgChooseDone(h, r)
           \/ MsgSendDone(h))
          => OthersKept(IF bat[h] # NoBattle THEN bat[h] ELSE bat'[h])]_vars

\* The handler of an update for battle 2 is under way while the one for
\* battle 1 is suspended; both battles have been narrated and written to,
\* and their fields differ.
C37_Witness ==
    /\ \E h, g \in Handlers :
          /\ bat[h] = 1 /\ bat[g] = 2
          /\ running = g
          /\ pc[h] \notin {"idle", "done", "raised", "narrate", "pass"}
    /\ history[1] > 0 /\ history[2] > 0
    /\ speed_list[1] # speed_list[2]
    /\ trapped[1] # trapped[2]
    /\ move_on_next_request[1] # move_on_next_request[2]
    /\ \E a \in Actors : pokemon_hp_log_dict[a] # <<>>

====
